---- MODULE Spec2Model ----
(***************************************************************************)
(* Silentium: the noise-event detectors (FootstepDetector,                 *)
(* FrictionDetector, GeneralDetector) and the analysis loop of             *)
(* useAudioAnalysis that arbitrates between them and keeps the event log.  *)
(*                                                                         *)
(* Numbers.  JavaScript numbers are modelled exactly as rationals          *)
(* <<numerator, denominator>> with a positive denominator; features that   *)
(* the SpectralAnalyzer sums from byte magnitudes are integers.  NaN is    *)
(* the empty tuple.  An optional value (undefined / absent field) is the   *)
(* empty tuple, a present one the one-element tuple <<v>>.                 *)
(*                                                                         *)
(* Records.  Every record constructor lists its fields in one fixed order, *)
(* the order in which the field names first occur in this module.          *)
(***************************************************************************)
EXTENDS Integers, Sequences, FiniteSets, TLC

VARIABLES
    unit,                       \* which object the behaviour exercises: one detector alone, or the hook
    now,                        \* the clock: the last timestamp handed to a detector (Date.now())
    footstepLastDetectionTime,  \* FootstepDetector.lastDetectionTime
    continuousFrames,           \* FrictionDetector.continuousFrames
    isDetecting,                \* FrictionDetector._isDetecting
    generalLastDetectionTime,   \* GeneralDetector.lastDetectionTime
    call,                       \* the last call made on the detector under exercise and what it returned
    aboveRun,                   \* history: above-threshold friction calls in a row since the detector was idle
    sinceEvent,                 \* history: "none" | "clean" | "interrupted" since the detector's last event
    lastEventTime,              \* history: timestamp of the detector's last event, if any
    previousSpectrum,           \* SpectralAnalyzer.previousSpectrum
    events,                     \* useAudioAnalysis: the recent-event log
    hookConfig,                 \* useAudioAnalysis: the DetectionConfig state (config)
    isCalibrating,              \* useAudioAnalysis: calibration in progress
    calibrationBuffer,          \* useAudioAnalysis: calibrationBuffer.current
    calibrationTimers,          \* useAudioAnalysis: the pending setTimeout callbacks of
                                \* startCalibration, by the time each is due, in order
    frame,                      \* history: what the last analysis frame did (given: the frame the
                                \* analyzer in use was last given; before: the one before that)
    appended,                   \* history: every event ever appended to the log, in order
    clearedAt,                  \* history: Len(appended) when the log was last cleared
    discarded,                  \* history: the events dropped by the conflict resolution
    budget,                     \* harness: how many more changes of the sound and user actions may happen
    isLearning,                 \* AutoMaskingService.isLearning
    history,                    \* AutoMaskingService.history
    historyInterval,            \* AutoMaskingService.historyInterval: the running timer, if any
    sampled,                    \* history: the frames sampled since learning last started, in order
    intervals,                  \* window: the ids of the setInterval timers that are running
    micActive,                  \* App: the microphone is on
    appIsLearning,              \* App: the isLearning state of the learning button
    autoMaskingRef              \* App: autoMaskingRef.current holds a service

detectorVars == <<footstepLastDetectionTime, continuousFrames, isDetecting, generalLastDetectionTime>>
historyVars == <<call, aboveRun, sinceEvent, lastEventTime>>
hookVars == <<previousSpectrum, events, hookConfig, isCalibrating, calibrationBuffer,
              calibrationTimers>>
hookHistoryVars == <<frame, appended, clearedAt, discarded, budget>>
serviceVars == <<isLearning, history, historyInterval, sampled, intervals>>
appVars == <<micActive, appIsLearning, autoMaskingRef>>
vars == <<unit, now, detectorVars, historyVars, hookVars, hookHistoryVars, serviceVars, appVars>>

----------------------------------------------------------------------------
(* Rational arithmetic *)

Undefined == <<>>
NaN == <<>>
Some(v) == <<v>>
\* a ?? b
OrElse(opt, default) == IF opt = Undefined THEN default ELSE opt[1]

RECURSIVE Gcd(_, _)
Gcd(a, b) == IF b = 0 THEN a ELSE Gcd(b, a % b)
Abs(n) == IF n < 0 THEN -n ELSE n

Rat(n, d) == <<n, d>>
Num(n) == <<n, 1>>
\* the same number in lowest terms
Norm(r) ==
    LET g == Gcd(Abs(r[1]), r[2]) IN <<r[1] \div g, r[2] \div g>>
RLt(a, b) == a[1] * b[2] < b[1] * a[2]
RGt(a, b) == RLt(b, a)
RGe(a, b) == ~RLt(a, b)
RLe(a, b) == ~RLt(b, a)
RAdd(a, b) == Rat(a[1] * b[2] + b[1] * a[2], a[2] * b[2])
RSub(a, b) == Rat(a[1] * b[2] - b[1] * a[2], a[2] * b[2])
RMul(a, b) == Rat(a[1] * b[1], a[2] * b[2])
\* a / b for b # 0, the denominator kept positive (the detectors divide by a
\* sensitivity, which the callers supply positive, and by a threshold)
RDiv(a, b) ==
    IF b[1] < 0 THEN Rat(-(a[1] * b[2]), a[2] * (-b[1])) ELSE Rat(a[1] * b[2], a[2] * b[1])
RMin(a, b) == IF RLt(b, a) THEN b ELSE a
RMax(a, b) == IF RGt(b, a) THEN b ELSE a

----------------------------------------------------------------------------
(* FootstepDetector *)

FootstepCooldownMs == 300
FootstepBaseFluxThreshold == 50
FootstepBaseLowEnergyThreshold == 80

\* config?.footstepSensitivity ?? 1.0 and the like: config itself is optional
ConfigField(config, field, default) ==
    IF config = Undefined THEN default ELSE OrElse(config[1][field], default)

FootstepEvent(features, timestamp, effectiveFluxThresh) ==
    [timestamp |-> timestamp,
     type |-> "footstep",
     confidence |-> Norm(RMin(Num(1), RMul(RDiv(Num(features.spectralFlux), effectiveFluxThresh), Rat(1, 2)))),
     frequencyRange |-> [min |-> Num(20), max |-> Num(300)],
     details |-> [spectralFlux |-> Num(features.spectralFlux),
                  energy |-> Num(features.lowBandEnergy)]]

\* a plausible slip: the cooldown boundary counted as still cooling down
FootstepInCooldownInclusive(lastDetectionTime, timestamp) ==
    timestamp - lastDetectionTime <= FootstepCooldownMs

FootstepInCooldown(lastDetectionTime, timestamp) ==
    timestamp - lastDetectionTime < FootstepCooldownMs

\* a plausible slip: a non-strict comparison
FootstepIsLowImpactNonStrict(features, effectiveEnergyThresh) ==
    RGe(Num(features.lowBandEnergy), effectiveEnergyThresh)

\* const isLowImpact = features.lowBandEnergy > effectiveEnergyThresh
FootstepIsLowImpact(features, effectiveEnergyThresh) ==
    RGt(Num(features.lowBandEnergy), effectiveEnergyThresh)

\* FootstepDetector.detect: the returned event (or Undefined for null) and the
\* new lastDetectionTime
FootstepDetect(lastDetectionTime, features, timestamp, config) ==
    IF FootstepInCooldown(lastDetectionTime, timestamp)
    THEN [lastDetectionTime |-> lastDetectionTime, event |-> Undefined]
    ELSE
      LET sensitivity == ConfigField(config, "footstepSensitivity", Num(1))
          baseFlux == Num(FootstepBaseFluxThreshold)
          baseEnergy == ConfigField(config, "footstepThreshold", Num(FootstepBaseLowEnergyThreshold))
          effectiveFluxThresh == RDiv(baseFlux, sensitivity)
          effectiveEnergyThresh == RDiv(baseEnergy, sensitivity)
          isTransient == RGt(Num(features.spectralFlux), effectiveFluxThresh)
          isLowImpact == FootstepIsLowImpact(features, effectiveEnergyThresh)
      IN IF isTransient /\ isLowImpact
         THEN [lastDetectionTime |-> timestamp,
               event |-> Some(FootstepEvent(features, timestamp, effectiveFluxThresh))]
         ELSE [lastDetectionTime |-> lastDetectionTime, event |-> Undefined]


----------------------------------------------------------------------------
(* FrictionDetector *)

FRAMES_THRESHOLD == 12
FrictionBaseEnergyThreshold == 40

\* (features.lowBandEnergy * 0.5) + features.midBandEnergy
FrictionEnergy(features) ==
    RAdd(RMul(Num(features.lowBandEnergy), Rat(1, 2)), Num(features.midBandEnergy))

\* a plausible slip: the threshold multiplied by the sensitivity
FrictionEffectiveThresholdTimes(config) ==
    RMul(ConfigField(config, "frictionThreshold", Num(FrictionBaseEnergyThreshold)),
         ConfigField(config, "frictionSensitivity", Num(1)))

FrictionEffectiveThreshold(config) ==
    RDiv(ConfigField(config, "frictionThreshold", Num(FrictionBaseEnergyThreshold)),
         ConfigField(config, "frictionSensitivity", Num(1)))

FrictionEvent(features, timestamp, effectiveThreshold) ==
    [timestamp |-> timestamp,
     type |-> "friction",
     confidence |-> Norm(RMin(Num(1), RMul(RDiv(FrictionEnergy(features), effectiveThreshold), Rat(6, 10)))),
     frequencyRange |-> [min |-> Num(100), max |-> Num(1000)],
     details |-> [energy |-> Norm(FrictionEnergy(features))]]

\* a plausible slip: the event one frame late
FrictionReachedLate(frames) == frames > FRAMES_THRESHOLD

\* if (this.continuousFrames >= this.FRAMES_THRESHOLD), after the increment
FrictionReached(frames) == frames >= FRAMES_THRESHOLD

\* a plausible slip: a debounce that keeps the sustaining flag over a gap
FrictionBelowKeepsFlag(frames, detecting) ==
    [continuousFrames |-> 0, isDetecting |-> detecting, event |-> Undefined]

\* the else branch: a frame that is not above the threshold
FrictionBelow(frames, detecting) ==
    [continuousFrames |-> IF frames > 0 THEN 0 ELSE frames,
     isDetecting |-> FALSE,
     event |-> Undefined]

\* FrictionDetector.detect: the returned event and the new counter and flag
FrictionDetect(frames, detecting, features, timestamp, config) ==
    LET effectiveThreshold == FrictionEffectiveThreshold(config)
        frictionEnergy == FrictionEnergy(features)
    IN IF RGt(frictionEnergy, effectiveThreshold)
       THEN IF FrictionReached(frames + 1)
            THEN IF detecting
                 THEN [continuousFrames |-> frames + 1, isDetecting |-> detecting, event |-> Undefined]
                 ELSE [continuousFrames |-> frames + 1,
                       isDetecting |-> TRUE,
                       event |-> Some(FrictionEvent(features, timestamp, effectiveThreshold))]
            ELSE [continuousFrames |-> frames + 1, isDetecting |-> detecting, event |-> Undefined]
       ELSE FrictionBelow(frames, detecting)

----------------------------------------------------------------------------
(* GeneralDetector *)

GeneralCooldownMs == 500
GeneralBaseEnergyThreshold == 5000
GeneralBaseFluxThreshold == 500
GeneralBandwidth == 200

GeneralInCooldown(lastDetectionTime, timestamp) ==
    timestamp - lastDetectionTime < GeneralCooldownMs

\* Math.max(20, peakFreq - bandwidth), Math.min(20000, peakFreq + bandwidth);
\* both are NaN when peakFrequency is missing
GeneralRange(peakFreq) ==
    IF peakFreq = Undefined THEN [min |-> NaN, max |-> NaN]
    ELSE [min |-> Norm(RMax(Num(20), RSub(peakFreq[1], Num(GeneralBandwidth)))),
          max |-> Norm(RMin(Num(20000), RAdd(peakFreq[1], Num(GeneralBandwidth))))]

GeneralEvent(features, timestamp, effectiveThreshold) ==
    [timestamp |-> timestamp,
     type |-> "generic",
     confidence |-> Norm(RMin(Num(1), RMul(RDiv(Num(features.energy), effectiveThreshold), Rat(1, 2)))),
     frequencyRange |-> GeneralRange(features.peakFrequency),
     details |-> [energy |-> Num(features.energy)]]

GeneralFluxThreshold(sensitivity) == RDiv(Num(GeneralBaseFluxThreshold), sensitivity)

\* a plausible slip: the override is not read
GeneralBaseThresholdDefaultOnly(config) == Num(GeneralBaseEnergyThreshold)

\* config?.genericThreshold ?? this.BASE_ENERGY_THRESHOLD
GeneralBaseThreshold(config) ==
    ConfigField(config, "genericThreshold", Num(GeneralBaseEnergyThreshold))

\* a plausible slip: the flux test left out
GeneralExceedsEnergyOnly(features, effectiveThreshold, fluxThreshold) ==
    RGt(Num(features.energy), effectiveThreshold)

\* features.energy > effectiveThreshold && features.spectralFlux > fluxThreshold
GeneralExceeds(features, effectiveThreshold, fluxThreshold) ==
    /\ RGt(Num(features.energy), effectiveThreshold)
    /\ RGt(Num(features.spectralFlux), fluxThreshold)

\* GeneralDetector.detect
GeneralDetect(lastDetectionTime, features, timestamp, config) ==
    IF GeneralInCooldown(lastDetectionTime, timestamp)
    THEN [lastDetectionTime |-> lastDetectionTime, event |-> Undefined]
    ELSE
      LET sensitivity == ConfigField(config, "genericSensitivity", Num(1))
          baseThreshold == GeneralBaseThreshold(config)
          fluxThreshold == GeneralFluxThreshold(sensitivity)
          effectiveThreshold == RDiv(baseThreshold, sensitivity)
      IN IF GeneralExceeds(features, effectiveThreshold, fluxThreshold)
         THEN [lastDetectionTime |-> timestamp,
               event |-> Some(GeneralEvent(features, timestamp, effectiveThreshold))]
         ELSE [lastDetectionTime |-> lastDetectionTime, event |-> Undefined]


----------------------------------------------------------------------------
(* DetectionConfig and SpectralFeatures values *)

\* DetectionConfig: every field optional-wrapped (the detectors read each
\* one with ?? and a default)
DetectionConfig(frictionS, frictionT, footstepS, footstepT, genericS, genericT) ==
    [frictionSensitivity |-> frictionS, frictionThreshold |-> frictionT,
     footstepSensitivity |-> footstepS, footstepThreshold |-> footstepT,
     genericSensitivity |-> genericS, genericThreshold |-> genericT]

SpectralFeatures(energy, low, mid, high, flux, centroid, peak) ==
    [spectralFlux |-> flux, energy |-> energy, lowBandEnergy |-> low,
     midBandEnergy |-> mid, peakFrequency |-> peak,
     highBandEnergy |-> high, spectralCentroid |-> centroid]

----------------------------------------------------------------------------
(* SpectralAnalyzer.  A frame is the Uint8Array of getByteFrequencyData: a  *)
(* sequence of BinCount magnitudes 0..255, bin i of the code at index i+1. *)

BinCount == 32          \* analyser.frequencyBinCount of the model
SampleRate == 44100

\* hzPerBin = nyquist / binCount, nyquist = sampleRate / 2
HzPerBin(binCount) == Rat(SampleRate, 2 * binCount)

\* a plausible slip: the bin index compared with the frequency limit
BinBelowIndex(i, binCount, hz) == i < hz

\* freq < hz, for freq = i * hzPerBin = i * sampleRate / (2 * binCount)
BinBelow(i, binCount, hz) == i * SampleRate < hz * 2 * binCount

\* the first loop of analyze from bin i on; acc holds its running variables
RECURSIVE EnergyLoop(_, _, _)
EnergyLoop(frequencyData, i, acc) ==
    IF i >= Len(frequencyData) THEN acc
    ELSE
      LET val == frequencyData[i + 1]
          low == BinBelow(i, Len(frequencyData), 300)
          mid == ~low /\ BinBelow(i, Len(frequencyData), 2000)
      IN EnergyLoop(frequencyData, i + 1,
            [totalEnergy |-> acc.totalEnergy + val,
             weightedSum |-> acc.weightedSum + val * i,
             maxVal |-> IF val > acc.maxVal THEN val ELSE acc.maxVal,
             maxBinIndex |-> IF val > acc.maxVal THEN i ELSE acc.maxBinIndex,
             lowEng |-> IF low THEN acc.lowEng + val ELSE acc.lowEng,
             midEng |-> IF mid THEN acc.midEng + val ELSE acc.midEng,
             highEng |-> IF ~low /\ ~mid THEN acc.highEng + val ELSE acc.highEng])

\* The caller's frame buffer: the analysis loop fills one Uint8Array again
\* for every frame and hands that same object to analyze.  A history that
\* were a reference to it would read as the frame of the current call.
SharedArray == <<-1>>

\* a plausible slip: the history keeps the caller's array itself
ReferenceToFrame(frequencyData) == SharedArray

\* new Uint8Array(frequencyData): the history is a copy of the values
CopyOfFrame(frequencyData) == frequencyData

\* this.previousSpectrum[...] as read during a call on frequencyData
HistoryValues(previous, frequencyData) ==
    IF previous = SharedArray THEN frequencyData ELSE previous

\* a plausible slip: the signed difference summed
RECURSIVE FluxLoopSigned(_, _, _, _)
FluxLoopSigned(frequencyData, previous, i, spectralFlux) ==
    IF i >= Len(frequencyData) THEN spectralFlux
    ELSE FluxLoopSigned(frequencyData, previous, i + 1,
                        spectralFlux + (frequencyData[i + 1] - previous[i + 1]))

\* the second loop: the L1 distance to the previous frame, from bin i on
RECURSIVE FluxLoop(_, _, _, _)
FluxLoop(frequencyData, previous, i, spectralFlux) ==
    IF i >= Len(frequencyData) THEN spectralFlux
    ELSE FluxLoop(frequencyData, previous, i + 1,
                  spectralFlux + Abs(frequencyData[i + 1] - previous[i + 1]))

\* a plausible slip: the centroid divided without the totalEnergy > 0 test
FeaturesOfUnguarded(sums, spectralFlux, hzPerBin) ==
    SpectralFeatures(
        sums.totalEnergy, sums.lowEng, sums.midEng, sums.highEng, spectralFlux,
        IF sums.totalEnergy = 0 THEN NaN
        ELSE Norm(RMul(Norm(Rat(sums.weightedSum, sums.totalEnergy)), hzPerBin)),
        Some(Norm(RMul(Num(sums.maxBinIndex), hzPerBin))))

\* the centroid, the peak and the returned object, from the loops' results
FeaturesOf(sums, spectralFlux, hzPerBin) ==
    SpectralFeatures(
        sums.totalEnergy, sums.lowEng, sums.midEng, sums.highEng, spectralFlux,
        Norm(RMul(IF sums.totalEnergy > 0 THEN Norm(Rat(sums.weightedSum, sums.totalEnergy))
                  ELSE Num(0),
                  hzPerBin)),
        Some(Norm(RMul(Num(sums.maxBinIndex), hzPerBin))))

\* SpectralAnalyzer.analyze: the features (the new previousSpectrum is the
\* frame itself)
SpectralAnalyze(previous, frequencyData) ==
    FeaturesOf(
        EnergyLoop(frequencyData, 0,
            [totalEnergy |-> 0, weightedSum |-> 0, maxVal |-> 0, maxBinIndex |-> 0,
             lowEng |-> 0, midEng |-> 0, highEng |-> 0]),
        IF previous = Undefined THEN 0
        ELSE FluxLoop(frequencyData, HistoryValues(previous[1], frequencyData), 0, 0),
        HzPerBin(Len(frequencyData)))

----------------------------------------------------------------------------
(* useAudioAnalysis: the analysis loop *)

LogCapacity == 50

\* a plausible slip: a strict comparison, so that a tie keeps the friction event
ResolveConflictStrict(footstep, friction) ==
    IF footstep # Undefined /\ friction # Undefined
    THEN IF RGt(footstep[1].confidence, friction[1].confidence)
         THEN <<footstep, Undefined>>
         ELSE <<Undefined, friction>>
    ELSE <<footstep, friction>>

\* Conflict resolution: if both fired, keep the one with the higher
\* confidence (the footstep on a tie); <<footstep, friction>> afterwards
ResolveConflict(footstep, friction) ==
    IF footstep # Undefined /\ friction # Undefined
    THEN IF RGe(footstep[1].confidence, friction[1].confidence)
         THEN <<footstep, Undefined>>
         ELSE <<Undefined, friction>>
    ELSE <<footstep, friction>>

\* a plausible slip: only this frame's events looked at, not the sustaining flag
GeneralAllowedNoEventOnly(isFrictionActive, friction, footstep) ==
    friction = Undefined /\ footstep = Undefined

\* a plausible slip: only the sustaining flag looked at, not this frame's events
GeneralAllowedUnlessSustaining(isFrictionActive, friction, footstep) ==
    ~isFrictionActive

\* if (!isFrictionActive && !friction && !footstep)
GeneralAllowed(isFrictionActive, friction, footstep) ==
    ~isFrictionActive /\ friction = Undefined /\ footstep = Undefined

\* a plausible slip: a suppressed frame restarts the generic cooldown
GeneralSkippedRestartsCooldown(lastDetectionTime, timestamp) ==
    [lastDetectionTime |-> timestamp, event |-> Undefined]

\* the generic gate closed: generalDetectorRef.current.detect is not called
GeneralSkipped(lastDetectionTime, timestamp) ==
    [lastDetectionTime |-> lastDetectionTime, event |-> Undefined]

\* q.slice(-n)
SliceLast(q, n) == IF Len(q) <= n THEN q ELSE SubSeq(q, Len(q) - n + 1, Len(q))

\* a plausible slip: slice(0, 50), which keeps the oldest events
AppendEventsKeepOldest(prev, newEvents) ==
    IF Len(prev \o newEvents) <= LogCapacity THEN prev \o newEvents
    ELSE SubSeq(prev \o newEvents, 1, LogCapacity)

\* setEvents(prev => [...prev, ...newEvents].slice(-50))
AppendEvents(prev, newEvents) == SliceLast(prev \o newEvents, LogCapacity)

OptSeq(opt) == IF opt = Undefined THEN <<>> ELSE <<opt[1]>>

\* a plausible slip: a detector whose event is dropped is put back as it was
DetectorStateRolledBack(entering, leaving, raw, kept) ==
    IF raw # Undefined /\ kept = Undefined THEN entering ELSE leaving

\* footstep = null and friction = null clear the local variable only: the
\* detector keeps the state its detect() call left
DetectorStateAfter(entering, leaving, raw, kept) == leaving

EmptyCalibrationBuffer == [flux |-> <<>>, totalEnergy |-> <<>>, frictionMetric |-> <<>>]

\* calibration mode: the frame's energy, friction metric and flux are pushed
CalibrationSample(samples, features) ==
    [flux |-> Append(samples.flux, features.spectralFlux),
     totalEnergy |-> Append(samples.totalEnergy, features.energy),
     frictionMetric |-> Append(samples.frictionMetric, Norm(FrictionEnergy(features)))]

\* a plausible slip: the return of the calibration branch left out
DetectionNeverSkipped(calibrating) == FALSE

\* calibration mode ends the frame before the detectors are called
DetectionSkipped(calibrating) == calibrating

\* one run of analyze() on the frame `data`, `elapsed` ms after the last one
Analyze(data, elapsed) ==
    \E features \in {SpectralAnalyze(previousSpectrum, data)}, t \in {now + elapsed},
       cfg \in {Some(hookConfig)} :
    \E foot \in {FootstepDetect(footstepLastDetectionTime, features, t, cfg)},
       fric \in {FrictionDetect(continuousFrames, isDetecting, features, t, cfg)} :
    \E kept \in {ResolveConflict(foot.event, fric.event)} :
    \E footstep \in {kept[1]}, friction \in {kept[2]} :
    \E callGeneral \in {GeneralAllowed(fric.isDetecting, friction, footstep)} :
    \E gen \in {IF callGeneral
                THEN GeneralDetect(generalLastDetectionTime, features, t, cfg)
                ELSE GeneralSkipped(generalLastDetectionTime, t)} :
    \E newEvents \in {OptSeq(footstep) \o OptSeq(friction) \o OptSeq(gen.event)} :
    /\ now' = t
    /\ previousSpectrum' = Some(CopyOfFrame(data))
    /\ calibrationBuffer' = IF isCalibrating THEN CalibrationSample(calibrationBuffer, features)
                            ELSE calibrationBuffer
    /\ IF DetectionSkipped(isCalibrating)
       THEN /\ frame' = [n |-> frame.n + 1, features |-> features, calibrating |-> TRUE,
                         given |-> Some(data), before |-> frame.given]
            /\ UNCHANGED <<detectorVars, events, appended, discarded>>
       ELSE /\ footstepLastDetectionTime' =
                    DetectorStateAfter(footstepLastDetectionTime, foot.lastDetectionTime,
                                       foot.event, footstep)
            /\ continuousFrames' = fric.continuousFrames
            /\ isDetecting' = DetectorStateAfter(isDetecting, fric.isDetecting, fric.event, friction)
            /\ generalLastDetectionTime' = gen.lastDetectionTime
            /\ events' = IF Len(newEvents) > 0 THEN AppendEvents(events, newEvents) ELSE events
            /\ frame' = [n |-> frame.n + 1, config |-> hookConfig, features |-> features,
                         timestamp |-> t, calibrating |-> isCalibrating,
                         given |-> Some(data), before |-> frame.given,
                         footstepRaw |-> foot.event, frictionRaw |-> fric.event,
                         sustaining |-> fric.isDetecting,
                         generalCalled |-> callGeneral,
                         generalBefore |-> generalLastDetectionTime,
                         generalAfter |-> gen.lastDetectionTime,
                         generalRaw |-> gen.event,
                         log |-> events']
            /\ appended' = appended \o OptSeq(footstep) \o OptSeq(friction) \o OptSeq(gen.event)
            /\ discarded' = discarded \cup
                    {e[1] : e \in {foot.event, fric.event} \ {Undefined, footstep, friction}}
    /\ UNCHANGED <<unit, serviceVars, appVars, hookConfig, isCalibrating, calibrationTimers, clearedAt, historyVars>>

\* clearEvents
ClearEvents ==
    /\ events' = <<>>
    /\ clearedAt' = Len(appended)
    /\ UNCHANGED <<unit, serviceVars, appVars, now, detectorVars, historyVars, previousSpectrum, hookConfig,
                   isCalibrating, calibrationTimers, calibrationBuffer, frame, appended, discarded>>

\* updateSensitivity(type, value)
UpdateSensitivity(type, value) ==
    /\ hookConfig' = [hookConfig EXCEPT
            ![IF type = "friction" THEN "frictionSensitivity"
              ELSE IF type = "footstep" THEN "footstepSensitivity"
              ELSE "genericSensitivity"] = Some(value)]
    /\ UNCHANGED <<unit, serviceVars, appVars, now, detectorVars, historyVars, previousSpectrum, events,
                   isCalibrating, calibrationTimers, calibrationBuffer, frame, appended, clearedAt, discarded>>

CalibrationMs == 3000
FrictionThresholdFloor == 2000
FrictionMargin == 1000
FootstepThresholdFloor == 3000
FootstepMargin == 1500
GenericThresholdFloor == 5000
GenericMargin == 4000

\* startCalibration(), `elapsed` ms after the last frame or callback: the
\* flag, a fresh buffer, and a timer that nothing cancels
StartCalibration(elapsed) ==
    /\ now' = now + elapsed
    /\ isCalibrating' = TRUE
    /\ calibrationBuffer' = EmptyCalibrationBuffer
    /\ calibrationTimers' = Append(calibrationTimers, now' + CalibrationMs)
    /\ call' = [timestamp |-> now', frames |-> frame.n, op |-> "startCalibration"]
    /\ UNCHANGED <<unit, serviceVars, appVars, detectorVars, aboveRun, sinceEvent, lastEventTime,
                   previousSpectrum, events, hookConfig, frame, appended, clearedAt, discarded>>

\* Math.max(...values) of a non-empty array of numbers
MaxOf(values) ==
    LET RECURSIVE Loop(_, _)
        Loop(i, best) == IF i > Len(values) THEN best
                         ELSE Loop(i + 1, IF RGt(values[i], best) THEN values[i] ELSE best)
    IN Loop(2, values[1])

\* the setConfig updater of the timer callback
CalibratedConfig(prev, samples) ==
    LET maxTotalEnergy == MaxOf([i \in DOMAIN samples.totalEnergy |-> Num(samples.totalEnergy[i])])
        maxFrictionMetric == MaxOf(samples.frictionMetric)
    IN [prev EXCEPT
          !.frictionThreshold =
              Some(Norm(RMax(Num(FrictionThresholdFloor), RAdd(maxFrictionMetric, Num(FrictionMargin))))),
          !.footstepThreshold =
              Some(Norm(RMax(Num(FootstepThresholdFloor), RAdd(maxFrictionMetric, Num(FootstepMargin))))),
          !.genericThreshold =
              Some(Norm(RMax(Num(GenericThresholdFloor), RAdd(maxTotalEnergy, Num(GenericMargin)))))]

\* the callback of the oldest pending timer of startCalibration
CalibrationTimeout ==
    /\ calibrationTimers # <<>>
    /\ now' = Head(calibrationTimers)
    /\ calibrationTimers' = Tail(calibrationTimers)
    /\ isCalibrating' = FALSE
    /\ hookConfig' = IF Len(calibrationBuffer.totalEnergy) = 0 THEN hookConfig
                     ELSE CalibratedConfig(hookConfig, calibrationBuffer)
    /\ call' = [n |-> frame.n, timestamp |-> call.timestamp, frames |-> call.frames,
                op |-> "calibrationTimeout", due |-> Head(calibrationTimers)]
    /\ UNCHANGED <<unit, serviceVars, appVars, detectorVars, aboveRun, sinceEvent, lastEventTime,
                   previousSpectrum, events, calibrationBuffer, frame, appended, clearedAt,
                   discarded>>

\* the initialization effect, run again for a new analyser: fresh analyzer
\* and detectors, setEvents([])
Initialize ==
    /\ previousSpectrum' = Undefined
    /\ footstepLastDetectionTime' = 0
    /\ continuousFrames' = 0
    /\ isDetecting' = FALSE
    /\ generalLastDetectionTime' = 0
    /\ events' = <<>>
    /\ clearedAt' = Len(appended)
    /\ frame' = [frame EXCEPT !.given = Undefined]
    /\ UNCHANGED <<unit, serviceVars, appVars, now, historyVars, hookConfig, isCalibrating, calibrationTimers, calibrationBuffer,
                   appended, discarded>>

----------------------------------------------------------------------------
(* Exercising one detector instance on its own, as the detector tests do:  *)
(* detect and reset in any order, with arbitrary features and config and   *)
(* with timestamps that never decrease.                                    *)

\* The trigger conditions as the specification words them, over the integers:
\* x > base / sens  for rationals base, sens with sens > 0
ClaimAbove(x, base, sens) == x * sens[1] * base[2] > base[1] * sens[2]
ClaimField(config, field, default) ==
    IF config = Undefined THEN default
    ELSE IF config[1][field] = Undefined THEN default
    ELSE config[1][field][1]
\* 0.5 * lowBandEnergy + midBandEnergy > threshold / sensitivity
ClaimFrictionAbove(f, c) ==
    ClaimAbove(f.lowBandEnergy + 2 * f.midBandEnergy,
               <<2 * ClaimField(c, "frictionThreshold", Num(40))[1],
                 ClaimField(c, "frictionThreshold", Num(40))[2]>>,
               ClaimField(c, "frictionSensitivity", Num(1)))
ClaimFootstepTrigger(f, c) ==
    /\ ClaimAbove(f.spectralFlux, Num(50), ClaimField(c, "footstepSensitivity", Num(1)))
    /\ ClaimAbove(f.lowBandEnergy, ClaimField(c, "footstepThreshold", Num(80)),
                  ClaimField(c, "footstepSensitivity", Num(1)))
ClaimGeneralTrigger(f, c) ==
    /\ ClaimAbove(f.energy, ClaimField(c, "genericThreshold", Num(5000)),
                  ClaimField(c, "genericSensitivity", Num(1)))
    /\ ClaimAbove(f.spectralFlux, Num(500), ClaimField(c, "genericSensitivity", Num(1)))

MaxRun == 14            \* bound on FrictionDetector.continuousFrames

\* timestamps around each detector's cooldown boundaries
Times(u) ==
    CASE u = "footstep" -> {0, 299, 300, 599, 600, 900}
      [] u = "general" -> {0, 499, 500, 999, 1000}
      [] OTHER -> {0, 16}

One == Some(Num(1))
Half == Some(Rat(1, 2))
Two == Some(Num(2))

\* createFeatures(flux, lowEnd) of FootstepDetector.test.ts
FootstepFeatures ==
    {SpectralFeatures(flux + low, low, 0, 0, flux, Num(100), Some(Num(100))) :
        flux \in {26, 50, 51}, low \in {80, 81, 201}}
FootstepConfigs ==
    {Undefined} \cup
    {Some(DetectionConfig(One, Undefined, s, t, One, Undefined)) :
        s \in {One, Two}, t \in {Undefined, Some(Num(200))}}

\* createFeatures(midEnergy) of FrictionDetector.test.ts, and low-band energy
FrictionFeatures ==
    {SpectralFeatures(lm[1] + lm[2], lm[1], lm[2], 0, 0, Num(500), Some(Num(500))) :
        lm \in {<<0, 0>>, <<0, 21>>, <<0, 30>>, <<0, 40>>, <<1, 40>>, <<0, 81>>,
               <<0, 100>>}}
FrictionConfigs ==
    {Undefined} \cup
    {Some(DetectionConfig(s, Undefined, One, Undefined, One, Undefined)) : s \in {Half, Two}} \cup
    {Some(DetectionConfig(One, Some(Num(t)), One, Undefined, One, Undefined)) : t \in {100, -40}}

\* mockFeatures of GeneralDetector.test.ts with energy 6000, midBandEnergy 6000,
\* spectralFlux 600: no peakFrequency
GeneralTestFeatures == SpectralFeatures(6000, 0, 6000, 0, 600, Num(0), Undefined)

GeneralFeatures ==
    {SpectralFeatures(energy, 0, energy, 0, flux, Num(1000), Some(Num(1000))) :
        energy \in {5000, 5001, 8001}, flux \in {250, 251, 500, 501}} \cup
    {GeneralTestFeatures}
GeneralConfigs ==
    {Undefined} \cup
    {Some(DetectionConfig(One, Undefined, One, Undefined, s, t)) :
        s \in {One, Two}, t \in {Undefined, Some(Num(8000))}} \cup
    {Some(DetectionConfig(One, Undefined, One, Undefined, One, Some(Num(-5000))))}

\* history of the detector under exercise after a detect call returned `event`
\* (interrupts: a friction frame that is not above the threshold)
SinceEventAfter(event, interrupts) ==
    IF event # Undefined THEN "clean"
    ELSE IF interrupts /\ sinceEvent = "clean" THEN "interrupted"
    ELSE sinceEvent

InitDetectors ==
    /\ footstepLastDetectionTime = 0
    /\ continuousFrames = 0
    /\ isDetecting = FALSE
    /\ generalLastDetectionTime = 0

\* useAudioAnalysis after its first render with an analyser
InitHook ==
    /\ previousSpectrum = Undefined
    /\ events = <<>>
    /\ hookConfig = DetectionConfig(Some(Rat(6, 10)), Undefined, Some(Rat(35, 10)), Undefined,
                                    One, Undefined)
    /\ isCalibrating = FALSE
    /\ calibrationBuffer = EmptyCalibrationBuffer
    /\ calibrationTimers = <<>>
    /\ frame = [n |-> 0, given |-> Undefined]
    /\ appended = <<>>
    /\ clearedAt = 0
    /\ discarded = {}

\* a new AutoMaskingService
InitService ==
    /\ isLearning = FALSE
    /\ history = <<>>
    /\ historyInterval = Undefined
    /\ sampled = <<>>
    /\ intervals = {}

\* App before the microphone is first switched on
InitApp ==
    /\ micActive = FALSE
    /\ appIsLearning = FALSE
    /\ autoMaskingRef = FALSE

InitUnit ==
    /\ unit \in {"footstep", "friction", "general"}
    /\ now = 0
    /\ InitDetectors
    /\ call = [op |-> "new"]
    /\ aboveRun = 0
    /\ sinceEvent = "none"
    /\ lastEventTime = Undefined
    /\ InitHook
    /\ InitService
    /\ InitApp
    /\ budget = 0

UnitFootstepDetect(features, timestamp, config) ==
    LET r == FootstepDetect(footstepLastDetectionTime, features, timestamp, config) IN
    /\ unit = "footstep"
    /\ timestamp >= now
    /\ now' = timestamp
    /\ footstepLastDetectionTime' = r.lastDetectionTime
    /\ call' = [config |-> config, features |-> features, timestamp |-> timestamp,
                event |-> r.event, op |-> "detect",
                pre |-> [sinceEvent |-> sinceEvent,
                         lastEventTime |-> lastEventTime, lastDetectionTime |-> footstepLastDetectionTime]]
    /\ sinceEvent' = SinceEventAfter(r.event, FALSE)
    /\ lastEventTime' = IF r.event # Undefined THEN Some(timestamp) ELSE lastEventTime
    /\ UNCHANGED <<unit, serviceVars, appVars, continuousFrames, isDetecting, generalLastDetectionTime, aboveRun,
                   hookVars, hookHistoryVars>>

\* FootstepDetector.reset
UnitFootstepReset ==
    /\ unit = "footstep"
    /\ footstepLastDetectionTime' = 0
    /\ call' = [op |-> "reset"]
    /\ sinceEvent' = IF sinceEvent = "clean" THEN "interrupted" ELSE sinceEvent
    /\ UNCHANGED <<unit, serviceVars, appVars, now, continuousFrames, isDetecting, generalLastDetectionTime,
                   aboveRun, lastEventTime, hookVars, hookHistoryVars>>

UnitFrictionDetect(features, timestamp, config) ==
    LET r == FrictionDetect(continuousFrames, isDetecting, features, timestamp, config)
        above == ClaimFrictionAbove(features, config)
    IN
    /\ unit = "friction"
    /\ timestamp >= now
    /\ r.continuousFrames <= MaxRun
    /\ now' = timestamp
    /\ continuousFrames' = r.continuousFrames
    /\ isDetecting' = r.isDetecting
    /\ call' = [config |-> config, features |-> features, timestamp |-> timestamp,
                event |-> r.event, op |-> "detect",
                pre |-> [continuousFrames |-> continuousFrames, isDetecting |-> isDetecting,
                         sinceEvent |-> sinceEvent]]
    /\ aboveRun' = IF above THEN aboveRun + 1 ELSE 0
    /\ sinceEvent' = SinceEventAfter(r.event, ~above)
    /\ lastEventTime' = IF r.event # Undefined THEN Some(timestamp) ELSE lastEventTime
    /\ UNCHANGED <<unit, serviceVars, appVars, footstepLastDetectionTime, generalLastDetectionTime,
                   hookVars, hookHistoryVars>>

\* FrictionDetector.reset
UnitFrictionReset ==
    /\ unit = "friction"
    /\ continuousFrames' = 0
    /\ isDetecting' = FALSE
    /\ call' = [op |-> "reset"]
    /\ aboveRun' = 0
    /\ sinceEvent' = IF sinceEvent = "clean" THEN "interrupted" ELSE sinceEvent
    /\ UNCHANGED <<unit, serviceVars, appVars, now, footstepLastDetectionTime, generalLastDetectionTime, lastEventTime,
                   hookVars, hookHistoryVars>>

UnitGeneralDetect(features, timestamp, config) ==
    LET r == GeneralDetect(generalLastDetectionTime, features, timestamp, config) IN
    /\ unit = "general"
    /\ timestamp >= now
    /\ now' = timestamp
    /\ generalLastDetectionTime' = r.lastDetectionTime
    /\ call' = [config |-> config, features |-> features, timestamp |-> timestamp,
                event |-> r.event, op |-> "detect",
                pre |-> [sinceEvent |-> sinceEvent,
                         lastEventTime |-> lastEventTime, lastDetectionTime |-> generalLastDetectionTime]]
    /\ sinceEvent' = SinceEventAfter(r.event, FALSE)
    /\ lastEventTime' = IF r.event # Undefined THEN Some(timestamp) ELSE lastEventTime
    /\ UNCHANGED <<unit, serviceVars, appVars, footstepLastDetectionTime, continuousFrames, isDetecting, aboveRun,
                   hookVars, hookHistoryVars>>

\* GeneralDetector.reset
UnitGeneralReset ==
    /\ unit = "general"
    /\ generalLastDetectionTime' = 0
    /\ call' = [op |-> "reset"]
    /\ sinceEvent' = IF sinceEvent = "clean" THEN "interrupted" ELSE sinceEvent
    /\ UNCHANGED <<unit, serviceVars, appVars, now, footstepLastDetectionTime, continuousFrames, isDetecting,
                   aboveRun, lastEventTime, hookVars, hookHistoryVars>>

NextUnit ==
    \/ \E f \in FootstepFeatures, t \in Times(unit), c \in FootstepConfigs : UnitFootstepDetect(f, t, c)
    \/ UnitFootstepReset
    \/ \E f \in FrictionFeatures, t \in Times(unit), c \in FrictionConfigs : UnitFrictionDetect(f, t, c)
    \/ UnitFrictionReset
    \/ \E f \in GeneralFeatures, t \in Times(unit), c \in GeneralConfigs : UnitGeneralDetect(f, t, c)
    \/ UnitGeneralReset

SpecUnit == InitUnit /\ [][NextUnit]_vars

----------------------------------------------------------------------------
(* Exercising the hook: frames of a few sounds, and the user's actions *)

MaxFrames == 13         \* analysis frames of one behaviour
MaxChanges == 1         \* changes of the sound and user actions in one behaviour
StartTime == 1000       \* Date.now() at the first frame, less one frame period
MaxSessionFrames == 53  \* analysis frames of one scripted session
MaxClears == 1          \* user actions in one scripted session
MaxLogLength == 2       \* events of a short event log
MaxSamples == 3         \* frames sampled in one learning session
MaxTicks == 603         \* frames sampled in one long learning session
MaxNoiseSamples == 2    \* samples of a noise buffer
MaxCalibrationFrames == 6   \* analysis frames of one behaviour with calibrations
MaxStarts == 2          \* calls of startCalibration in one behaviour
MaxTimers == 2          \* interval timers running at one time

\* a spectrum with one magnitude per band
Sound(low, mid, high) ==
    [i \in 1..BinCount |->
        IF BinBelow(i - 1, BinCount, 300) THEN low
        ELSE IF BinBelow(i - 1, BinCount, 2000) THEN mid ELSE high]

Drag == Sound(0, 40, 0)             \* sustained mid-band noise, above the friction threshold
DragTap == Sound(23, 40, 0)         \* the same with a weak low-band impact
DragStep == Sound(24, 40, 0)        \* the same with a slightly stronger impact
DragStomp == Sound(255, 40, 0)      \* the same with a full-scale impact
DragRoar == Sound(0, 40, 200)       \* the same with loud broadband noise
Roar == Sound(0, 0, 200)            \* loud high-band noise alone
Stomp == Sound(255, 0, 0)           \* a low-band impact alone
StompRoar == Sound(255, 0, 200)     \* an impact with loud high-band noise
Hiss == [Roar EXCEPT ![BinCount] = 255]     \* loud high-band noise that peaks in the top bin

HookSounds == {Drag, DragTap, DragStep, DragStomp, DragRoar, Roar, StompRoar, Hiss}

\* the slider moves tried
HookSensitivities == {<<"generic", Num(2)>>, <<"footstep", Num(1)>>}

\* requestAnimationFrame period, ms: 60 Hz, or a throttled tab in a session
\* (about 2 Hz) and in a calibration (1 Hz)
FramePeriod(u) == IF u = "session" THEN 512 ELSE IF u = "calibration" THEN 1000 ELSE 16

\* the sounds a recording starts with
AmbientSounds == {Drag, Roar}

\* a change of the sound, or a user action, uses up one unit of the budget
Spend(cost) ==
    /\ budget >= cost
    /\ budget' = budget - cost

Init ==
    /\ unit = "hook"
    /\ now = StartTime
    /\ InitDetectors
    /\ call = [op |-> "new"]
    /\ aboveRun = 0
    /\ sinceEvent = "none"
    /\ lastEventTime = Undefined
    /\ InitHook
    /\ InitService
    /\ InitApp
    /\ budget = MaxChanges

HookFrame(data) ==
    /\ frame.n < MaxFrames
    /\ previousSpectrum = Undefined => data \in AmbientSounds
    /\ Spend(IF previousSpectrum \in {Undefined, Some(data)} THEN 0 ELSE 1)
    /\ Analyze(data, FramePeriod(unit))

UserClearEvents == Spend(1) /\ ClearEvents

UserUpdateSensitivity(type, value) == Spend(1) /\ UpdateSensitivity(type, value)

AnalyserChanged == Spend(1) /\ Initialize

Next ==
    \/ \E data \in HookSounds : HookFrame(data)
    \/ UserClearEvents
    \/ \E tv \in HookSensitivities : UserUpdateSensitivity(tv[1], tv[2])
    \/ AnalyserChanged

Spec == Init /\ [][Next]_vars

\* a scripted session long enough to fill the log: an impact and a roar in turn
InitLog ==
    /\ unit = "session"
    /\ now = StartTime
    /\ InitDetectors
    /\ call = [op |-> "new"]
    /\ aboveRun = 0
    /\ sinceEvent = "none"
    /\ lastEventTime = Undefined
    /\ InitHook
    /\ InitService
    /\ InitApp
    /\ budget = MaxClears

SessionFrame ==
    /\ frame.n < MaxSessionFrames
    /\ UNCHANGED budget
    /\ Analyze(IF frame.n % 2 = 0 THEN Roar ELSE Stomp, FramePeriod(unit))

NextLog ==
    \/ SessionFrame
    \/ UserClearEvents
    \/ AnalyserChanged

SpecLog == InitLog /\ [][NextLog]_vars

\* a behaviour with calibrations: frames on the grid of the frame period, the
\* user's clicks half-way between two frames, the timers when they are due
ClickDelay == 500

CalibrationSounds == {Drag, Roar}

InitCalibration ==
    /\ unit = "calibration"
    /\ now = StartTime
    /\ InitDetectors
    /\ call = [op |-> "new"]
    /\ aboveRun = 0
    /\ sinceEvent = "none"
    /\ lastEventTime = Undefined
    /\ InitHook
    /\ InitService
    /\ InitApp
    /\ budget = MaxStarts

\* the time of the next frame
NextFrameTime == (now \div FramePeriod(unit) + 1) * FramePeriod(unit)

\* nothing due before time t is left to run
NoTimerBefore(t) == IF calibrationTimers = <<>> THEN TRUE ELSE Head(calibrationTimers) > t

CalibrationFrame(data) ==
    /\ frame.n < MaxCalibrationFrames
    /\ NoTimerBefore(NextFrameTime)
    /\ Analyze(data, NextFrameTime - now)
    /\ UNCHANGED budget

UserStartCalibration ==
    /\ now % FramePeriod(unit) = 0
    /\ NoTimerBefore(now + ClickDelay)
    /\ Spend(1)
    /\ StartCalibration(ClickDelay)

TimerDue ==
    /\ ~NoTimerBefore(NextFrameTime)
    /\ CalibrationTimeout
    /\ UNCHANGED budget

NextCalibration ==
    \/ \E data \in CalibrationSounds : CalibrationFrame(data)
    \/ UserStartCalibration
    \/ TimerDue

SpecCalibration == InitCalibration /\ [][NextCalibration]_vars

----------------------------------------------------------------------------
(* Exercising one SpectralAnalyzer on its own *)

Silence == Sound(0, 0, 0)
Rumble == Sound(10, 20, 30)         \* some energy in every band

\* silence but for one bin
Impulse(bin, magnitude) == [Silence EXCEPT ![bin + 1] = magnitude]

AnalyzerFrames ==
    HookSounds \cup {Silence, Stomp, Rumble} \cup
    {Impulse(bin, magnitude) : bin \in {0, 1, 3, BinCount - 1}, magnitude \in {1, 200, 255}}

InitAnalyzer ==
    /\ unit = "analyzer"
    /\ now = 0
    /\ InitDetectors
    /\ call = [op |-> "new"]
    /\ aboveRun = 0
    /\ sinceEvent = "none"
    /\ lastEventTime = Undefined
    /\ InitHook
    /\ InitService
    /\ InitApp
    /\ budget = 0

\* SpectralAnalyzer.analyze: the features returned and the history kept
AnalyzerAnalyze(frequencyData) ==
    \E features \in {SpectralAnalyze(previousSpectrum, frequencyData)} :
    /\ previousSpectrum' = Some(CopyOfFrame(frequencyData))
    /\ call' = [features |-> features, data |-> frequencyData, before |-> frame.given,
                op |-> "analyze"]
    /\ frame' = [frame EXCEPT !.given = Some(frequencyData)]
    /\ UNCHANGED <<unit, serviceVars, appVars, now, detectorVars, aboveRun, sinceEvent, lastEventTime, events,
                   hookConfig, isCalibrating, calibrationTimers, calibrationBuffer, appended, clearedAt,
                   discarded, budget>>

\* SpectralAnalyzer.reset
AnalyzerReset ==
    /\ previousSpectrum' = Undefined
    /\ call' = [op |-> "reset"]
    /\ frame' = [frame EXCEPT !.given = Undefined]
    /\ UNCHANGED <<unit, serviceVars, appVars, now, detectorVars, aboveRun, sinceEvent, lastEventTime, events,
                   hookConfig, isCalibrating, calibrationTimers, calibrationBuffer, appended, clearedAt,
                   discarded, budget>>

NextAnalyzer ==
    \/ \E data \in AnalyzerFrames : AnalyzerAnalyze(data)
    \/ AnalyzerReset

SpecAnalyzer == InitAnalyzer /\ [][NextAnalyzer]_vars

----------------------------------------------------------------------------
(* AutoMaskingService: masking settings computed from a frame or an event *)

\* types/audio.ts: the ten-band graphic equalizer, all gains 0
EQFrequencies ==
    <<Rat(63, 2), Num(63), Num(125), Num(250), Num(500),
      Num(1000), Num(2000), Num(4000), Num(8000), Num(16000)>>

DEFAULT_EQ_BANDS ==
    [b \in 1..Len(EQFrequencies) |->
        [type |-> IF b = 1 THEN "lowshelf"
                  ELSE IF b = Len(EQFrequencies) THEN "highshelf" ELSE "peaking",
         frequency |-> EQFrequencies[b], gain |-> Num(0), Q |-> Rat(141, 100)]]

DEFAULT_CONFIG ==
    [name |-> "Default", category |-> "general",
     noiseVolumes |-> [white |-> Num(0), pink |-> Rat(3, 10), brown |-> Rat(1, 2),
                       blue |-> Num(0), violet |-> Num(0)],
     masterVolume |-> Rat(1, 2), envMasterVolume |-> Rat(1, 2),
     eqBands |-> DEFAULT_EQ_BANDS,
     hpf |-> Num(20), lpf |-> Num(20000),
     rumbleIntensity |-> Num(0), rumbleCrossover |-> Num(80),
     modulation |-> Num(0), neighborSafe |-> TRUE, neighborSafeFreq |-> Num(40),
     roomSize |-> "off"]

\* presets.ts: the default bands with the gains the preset adjusts, keyed by frequency
createBands(adjustments) ==
    [b \in DOMAIN DEFAULT_EQ_BANDS |->
        [DEFAULT_EQ_BANDS[b] EXCEPT
            !.gain = IF DEFAULT_EQ_BANDS[b].frequency \in DOMAIN adjustments
                     THEN adjustments[DEFAULT_EQ_BANDS[b].frequency] ELSE Num(0)]]

\* presets.ts, PRESETS[0]
FootstepShield ==
    [DEFAULT_CONFIG EXCEPT
        !.name = "Footstep Shield", !.category = "footstep",
        !.noiseVolumes = [white |-> Num(0), pink |-> Rat(3, 10), brown |-> Num(1),
                          blue |-> Num(0), violet |-> Num(0)],
        !.masterVolume = Rat(3, 5), !.envMasterVolume = Rat(3, 10),
        !.eqBands = createBands(
            (Rat(63, 2) :> Num(4)) @@ (Num(63) :> Num(6)) @@ (Num(125) :> Num(4)) @@
            (Num(250) :> Num(3)) @@ (Num(500) :> Num(1)) @@
            (Num(4000) :> Num(-2)) @@ (Num(8000) :> Num(-4)) @@ (Num(16000) :> Num(-6))),
        !.hpf = Num(30), !.lpf = Num(8000),
        !.rumbleIntensity = Rat(4, 5), !.rumbleCrossover = Num(100),
        !.modulation = Rat(1, 200)]

\* presets.ts, PRESETS[1]
VoiceBlocker ==
    [DEFAULT_CONFIG EXCEPT
        !.name = "Voice Blocker", !.category = "voice",
        !.noiseVolumes = [white |-> Rat(1, 10), pink |-> Rat(7, 10), brown |-> Rat(1, 5),
                          blue |-> Rat(2, 5), violet |-> Num(0)],
        !.masterVolume = Rat(1, 2), !.envMasterVolume = Rat(3, 10),
        !.eqBands = createBands(
            (Rat(63, 2) :> Num(-2)) @@ (Num(63) :> Num(-2)) @@
            (Num(500) :> Num(2)) @@ (Num(1000) :> Num(4)) @@ (Num(2000) :> Num(5)) @@
            (Num(4000) :> Num(3)) @@ (Num(8000) :> Num(0)) @@ (Num(16000) :> Num(0))),
        !.hpf = Num(100), !.lpf = Num(16000)]

\* the bin index taken for its frequency in Hz
FreqBelowIndex(i, bufferLength, sampleRate, hz) == i < hz
\* freq < hz for freq = (i / bufferLength) * nyquist, nyquist = sampleRate / 2
FreqBelow(i, bufferLength, sampleRate, hz) == i * sampleRate < hz * 2 * bufferLength

\* the band a bin is counted in
BandOf(i, bufferLength, sampleRate) ==
    IF FreqBelow(i, bufferLength, sampleRate, 150) THEN "low"
    ELSE IF FreqBelow(i, bufferLength, sampleRate, 400) THEN "midLow"
    ELSE IF FreqBelow(i, bufferLength, sampleRate, 1000) THEN "mid"
    ELSE IF FreqBelow(i, bufferLength, sampleRate, 4000) THEN "midHigh"
    ELSE "high"

EmptyBands ==
    [band \in {"low", "midLow", "mid", "midHigh", "high"} |-> [sum |-> 0, count |-> 0]]

\* the loop over the bins, from bin i on
RECURSIVE BandLoop(_, _, _, _)
BandLoop(dataArray, sampleRate, i, bands) ==
    IF i >= Len(dataArray) THEN bands
    ELSE BandLoop(dataArray, sampleRate, i + 1,
            [bands EXCEPT ![BandOf(i, Len(dataArray), sampleRate)] =
                [sum |-> @.sum + dataArray[i + 1], count |-> @.count + 1]])

\* the mean magnitude of each band, 0 for a band without bins
Levels(bands) ==
    [band \in DOMAIN bands |->
        IF bands[band].count > 0 THEN Norm(Rat(bands[band].sum, bands[band].count))
        ELSE Num(0)]

normalize(val) ==
    IF RLt(val, Num(40)) THEN Rat(1, 10)
    ELSE Norm(RMin(Num(1), RAdd(Rat(1, 5), RDiv(RSub(val, Num(40)), Num(120)))))

\* a * x + b * y
Blend(a, x, b, y) == Norm(RAdd(RMul(a, x), RMul(b, y)))

MixVolumes(noiseVolumes, levels) ==
    [noiseVolumes EXCEPT
        !.brown = normalize(Blend(levels.low, Rat(4, 5), levels.midLow, Rat(2, 5))),
        !.pink = normalize(Blend(levels.midLow, Rat(3, 5), levels.mid, Rat(3, 5))),
        !.white = normalize(Blend(levels.midHigh, Rat(4, 5), levels.high, Rat(1, 5))),
        !.blue = normalize(Norm(RMul(levels.high, Rat(7, 10)))),
        !.violet = normalize(Norm(RMul(levels.high, Rat(1, 2))))]

EQTargetLevel(band, levels) ==
    IF RLe(band.frequency, Num(100)) THEN levels.low
    ELSE IF RLe(band.frequency, Num(300)) THEN levels.midLow
    ELSE IF RLe(band.frequency, Num(1000)) THEN levels.mid
    ELSE IF RLe(band.frequency, Num(4000)) THEN levels.midHigh
    ELSE levels.high

\* a plausible slip: the boost left without its ceiling
EQGainUnbounded(targetLevel) ==
    IF RGt(targetLevel, Num(80))
    THEN Norm(RDiv(RSub(targetLevel, Num(80)), Num(20)))
    ELSE Norm(RMax(Num(-3), RDiv(RSub(targetLevel, Num(80)), Num(30))))

EQGain(targetLevel) ==
    IF RGt(targetLevel, Num(80))
    THEN Norm(RMin(Num(6), RDiv(RSub(targetLevel, Num(80)), Num(20))))
    ELSE Norm(RMax(Num(-3), RDiv(RSub(targetLevel, Num(80)), Num(30))))

calculateFromData(dataArray, currentConfig, sampleRate) ==
    LET levels == Levels(BandLoop(dataArray, sampleRate, 0, EmptyBands))
        rumble == RGt(levels.low, Num(140))
        newRumbleCrossover ==
            IF rumble THEN Norm(RAdd(Num(80), RMul(RSub(levels.low, Num(140)), Rat(1, 2))))
            ELSE Num(80)
    IN  [noiseVolumes |-> MixVolumes(currentConfig.noiseVolumes, levels),
         eqBands |-> [b \in DOMAIN currentConfig.eqBands |->
                        [currentConfig.eqBands[b] EXCEPT
                            !.gain = EQGain(EQTargetLevel(currentConfig.eqBands[b], levels))]],
         hpf |-> IF RLt(levels.low, Num(60)) THEN Num(150)
                 ELSE IF RLt(levels.low, Num(100)) THEN Num(80) ELSE Num(30),
         lpf |-> IF RLt(levels.high, Num(60)) THEN Num(8000)
                 ELSE IF RGt(levels.high, Num(120)) THEN Num(16000) ELSE currentConfig.lpf,
         rumbleIntensity |->
            IF rumble THEN Norm(RMin(Rat(4, 5), RDiv(RSub(levels.low, Num(140)), Num(100))))
            ELSE Num(0),
         rumbleCrossover |-> RMin(Num(150), newRumbleCrossover)]

\* (min + max) / 2 of the event's range, 0 and 0 standing in for an absent range
Center(event) ==
    LET min == IF "frequencyRange" \in DOMAIN event THEN event.frequencyRange.min ELSE Num(0)
        max == IF "frequencyRange" \in DOMAIN event THEN event.frequencyRange.max ELSE Num(0)
    IN  IF min = NaN \/ max = NaN THEN NaN ELSE Norm(RDiv(RAdd(min, max), Num(2)))

\* center <= hz
CenterBelowOrAt(center, hz) == center # NaN /\ RLe(center, Num(hz))
\* center < hz, false for NaN
CenterBelow(center, hz) == center # NaN /\ RLt(center, Num(hz))

\* the mix chosen by the center frequency over a baseline that leaves violet as
\* the current configuration has it
PrimaryColorKeepsViolet(center, currentConfig) ==
    LET baseline == [currentConfig.noiseVolumes EXCEPT
                        !.brown = Rat(1, 10), !.pink = Rat(1, 10), !.white = Rat(1, 10),
                        !.blue = Num(0)]
    IN  IF CenterBelow(center, 300)
        THEN [noiseVolumes |-> [baseline EXCEPT !.brown = Rat(7, 10), !.pink = Rat(1, 5)],
              rumbleIntensity |-> Rat(3, 5)]
        ELSE IF CenterBelow(center, 1000)
        THEN [noiseVolumes |-> [baseline EXCEPT !.brown = Rat(3, 10), !.pink = Rat(7, 10),
                                                !.white = Rat(1, 5)],
              rumbleIntensity |-> currentConfig.rumbleIntensity]
        ELSE [noiseVolumes |-> [baseline EXCEPT !.pink = Rat(3, 10), !.white = Rat(3, 5),
                                                !.blue = Rat(1, 5)],
              rumbleIntensity |-> currentConfig.rumbleIntensity]

\* the mix and rumble chosen by the center frequency, over a reset baseline
PrimaryColor(center, currentConfig) ==
    LET baseline == [currentConfig.noiseVolumes EXCEPT
                        !.brown = Rat(1, 10), !.pink = Rat(1, 10), !.white = Rat(1, 10),
                        !.blue = Num(0), !.violet = Num(0)]
    IN  IF CenterBelow(center, 300)
        THEN [noiseVolumes |-> [baseline EXCEPT !.brown = Rat(7, 10), !.pink = Rat(1, 5)],
              rumbleIntensity |-> Rat(3, 5)]
        ELSE IF CenterBelow(center, 1000)
        THEN [noiseVolumes |-> [baseline EXCEPT !.brown = Rat(3, 10), !.pink = Rat(7, 10),
                                                !.white = Rat(1, 5)],
              rumbleIntensity |-> currentConfig.rumbleIntensity]
        ELSE [noiseVolumes |-> [baseline EXCEPT !.pink = Rat(3, 10), !.white = Rat(3, 5),
                                                !.blue = Rat(1, 5)],
              rumbleIntensity |-> currentConfig.rumbleIntensity]

\* no adjustment for the type of the event
TypeAdjustmentNone(type, noiseVolumes) == noiseVolumes
\* the floor the event's type puts under one colour
TypeAdjustment(type, noiseVolumes) ==
    IF type = "friction" THEN [noiseVolumes EXCEPT !.pink = RMax(@, Rat(1, 2))]
    ELSE IF type = "footstep" THEN [noiseVolumes EXCEPT !.brown = RMax(@, Rat(3, 5))]
    ELSE noiseVolumes

calculateMaskForSingleEvent(event, currentConfig) ==
    LET primary == PrimaryColor(Center(event), currentConfig)
    IN  [noiseVolumes |-> TypeAdjustment(event.type, primary.noiseVolumes),
         rumbleIntensity |-> primary.rumbleIntensity]

----------------------------------------------------------------------------
(* IEEE 754 double arithmetic for the blend maxVal * 0.7 + median * 0.3.   *)
(* A non-negative double below 512 is held exactly as a count of 2^-54,    *)
(* written in four digits of base 2^20, lowest first.                      *)

LimbBase == 1048576             \* 2^20

RECURSIVE Pow2(_)
Pow2(k) == IF k = 0 THEN 1 ELSE 2 * Pow2(k - 1)

\* the number of binary digits of n
RECURSIVE BitLength(_)
BitLength(n) == IF n = 0 THEN 0 ELSE 1 + BitLength(n \div 2)

\* the digits again after the carries have moved up
CarryFrom(l, i) == [l EXCEPT ![i] = @ % LimbBase, ![i + 1] = @ + l[i] \div LimbBase]
Carry(l) == CarryFrom(CarryFrom(CarryFrom(l, 1), 2), 3)

\* the literal 0.7 as a double, 0x16666666666666 * 2^-53
Double07 == <<838860, 838860, 11468, 0>>
\* the literal 0.3 as a double, 0x13333333333333 * 2^-54
Double03 == <<209715, 209715, 4915, 0>>

BigBitLength(l) ==
    IF l[4] > 0 THEN 60 + BitLength(l[4])
    ELSE IF l[3] > 0 THEN 40 + BitLength(l[3])
    ELSE IF l[2] > 0 THEN 20 + BitLength(l[2])
    ELSE BitLength(l[1])

\* the digits with the lowest one cut to a multiple of 2^drop
CutDown(l, unit2) == [l EXCEPT ![1] = @ - (@ % unit2)]
\* round to nearest, ties to even: up when the cut part is more than half a
\* unit, or half a unit under an odd kept part
RoundsUp(low, rest, unit2) ==
    \/ 2 * rest > unit2
    \/ 2 * rest = unit2 /\ (low \div unit2) % 2 = 1

RoundBy(l, unit2) ==
    IF RoundsUp(l[1], l[1] % unit2, unit2)
    THEN Carry([l EXCEPT ![1] = @ - (@ % unit2) + unit2])
    ELSE CutDown(l, unit2)

\* the exact result rounded to 53 significant bits
DoubleRoundAt(l, drop) == IF drop <= 0 THEN l ELSE RoundBy(l, Pow2(drop))
DoubleRound(l) == DoubleRoundAt(l, BigBitLength(l) - 53)

\* x * d for an integer 0 <= x <= 255 and a double d
DoubleTimes(x, d) == DoubleRound(Carry(<<x * d[1], x * d[2], x * d[3], x * d[4]>>))
\* a + b before it is rounded
DoubleSum(a, b) == Carry(<<a[1] + b[1], a[2] + b[2], a[3] + b[3], a[4] + b[4]>>)
\* a + b
DoublePlus(a, b) == DoubleRound(DoubleSum(a, b))
\* the integer part: the count of 2^-54 divided by 2^54
DoubleFloor(l) == l[4] * 64 + l[3] \div 16384

\* storing x in a Uint8Array: the integer part, modulo 256
ToUint8(l) == DoubleFloor(l) % 256
\* Math.min(255, x)
DoubleMin255(l) == IF DoubleFloor(l) >= 255 THEN <<0, 0, 1032192, 3>> ELSE l

----------------------------------------------------------------------------
(* AutoMaskingService: learning from a history of frames *)

HistoryCapacity == 600
SamplePeriodMs == 100

\* the newest frame pushed out when the history is full
HistoryPushDropNewest(h, dataArray) ==
    IF Len(h) >= HistoryCapacity THEN h ELSE Append(h, dataArray)
\* history.shift() when 600 frames are held, then history.push(dataArray)
HistoryPush(h, dataArray) ==
    IF Len(h) >= HistoryCapacity THEN Append(Tail(h), dataArray) ELSE Append(h, dataArray)

\* values.sort((a, b) => a - b): the values in ascending order, by insertion
RECURSIVE SortedInsert(_, _)
SortedInsert(sorted, v) ==
    IF sorted = <<>> \/ v >= sorted[Len(sorted)] THEN Append(sorted, v)
    ELSE Append(SortedInsert(SubSeq(sorted, 1, Len(sorted) - 1), v), sorted[Len(sorted)])

RECURSIVE SortAscending(_)
SortAscending(values) ==
    IF values = <<>> THEN <<>>
    ELSE SortedInsert(SortAscending(SubSeq(values, 1, Len(values) - 1)), values[Len(values)])

\* the largest value of bin i over the history, starting from 0
RECURSIVE MaxHold(_, _)
MaxHold(values, maxVal) ==
    IF values = <<>> THEN maxVal
    ELSE MaxHold(Tail(values), IF Head(values) > maxVal THEN Head(values) ELSE maxVal)

\* values[Math.floor(values.length / 2)] of the sorted values
MedianOfSorted(values) == values[(Len(values) \div 2) + 1]
Median(values) == MedianOfSorted(SortAscending(values))

\* aggregatedData[i] = Math.min(255, maxVal * 0.7 + median * 0.3)
Blend7030(maxVal, median) ==
    ToUint8(DoubleMin255(DoublePlus(DoubleTimes(maxVal, Double07),
                                    DoubleTimes(median, Double03))))

\* bin i of every frame of the history, in order
RECURSIVE BinValues(_, _)
BinValues(h, i) == IF h = <<>> THEN <<>> ELSE <<Head(h)[i]>> \o BinValues(Tail(h), i)

BlendOfValues(values) == Blend7030(MaxHold(values, 0), Median(values))

\* the loop over the bins, from bin i on: the history folded into one frame
RECURSIVE AggregateLoop(_, _, _)
AggregateLoop(h, i, aggregatedData) ==
    IF i >= Len(h[1]) THEN aggregatedData
    ELSE AggregateLoop(h, i + 1, Append(aggregatedData, BlendOfValues(BinValues(h, i + 1))))

Aggregate(h) == AggregateLoop(h, 0, <<>>)

\* Partial<SilentiumConfig> without a field: {}
EmptyPartial == <<>>

\* an empty history learnt from as one frame of silence
LearnedSettingsOfSilence(h, currentConfig, sampleRate) ==
    calculateFromData(IF Len(h) = 0 THEN Silence ELSE Aggregate(h), currentConfig, sampleRate)
\* AutoMaskingService.stopLearning's result for a service that is learning
LearnedSettings(h, currentConfig, sampleRate) ==
    IF Len(h) = 0 THEN EmptyPartial
    ELSE calculateFromData(Aggregate(h), currentConfig, sampleRate)

----------------------------------------------------------------------------
(* AutoMaskingService: masking settings computed from the event log *)

\* the band an event is counted in, by the center of its range
EventBand(event) ==
    IF CenterBelow(Center(event), 300) THEN "low"
    ELSE IF CenterBelow(Center(event), 800) THEN "midLow"
    ELSE IF CenterBelow(Center(event), 2000) THEN "midHigh"
    ELSE "high"

\* events.forEach: the events counted by band, and maxCount under "all"
RECURSIVE CountEvents(_, _)
CountEvents(eventLog, bandCounts) ==
    IF eventLog = <<>> THEN bandCounts
    ELSE CountEvents(Tail(eventLog),
            [bandCounts EXCEPT ![EventBand(Head(eventLog))] = @ + 1, !["all"] = @ + 1])

Ratios(bandCounts) ==
    [band \in {"low", "midLow", "midHigh", "high"} |->
        IF bandCounts["all"] > 0 THEN Norm(Rat(bandCounts[band], bandCounts["all"]))
        ELSE Num(0)]

\* newRumbleIntensity
EventRumble(ratios, currentConfig) ==
    IF RGt(ratios.low, Rat(3, 10))
    THEN Norm(RMin(Rat(4, 5), RAdd(Rat(3, 10), RMul(ratios.low, Rat(1, 2)))))
    ELSE currentConfig.rumbleIntensity

EventVolumes(noiseVolumes, ratios) ==
    LET brown == Norm(RAdd(Rat(1, 5), RMul(ratios.low, Rat(3, 5))))
        pink == Norm(RAdd(Rat(1, 5), RMul(ratios.midLow, Rat(3, 5))))
    IN  [noiseVolumes EXCEPT
            !.brown = IF RGt(ratios.low, Rat(1, 2)) THEN RMax(brown, Rat(3, 5)) ELSE brown,
            !.pink = IF RGt(ratios.midLow, Rat(1, 2)) THEN RMax(pink, Rat(3, 5)) ELSE pink,
            !.white = Norm(RAdd(Rat(1, 10),
                                Blend(ratios.midHigh, Rat(3, 5), ratios.high, Rat(3, 10))))]

calculateOptimalSettingsFromEvents(eventLog, currentConfig) ==
    IF Len(eventLog) = 0 THEN EmptyPartial
    ELSE LET ratios == Ratios(CountEvents(eventLog,
                           [band \in {"low", "midLow", "midHigh", "high", "all"} |-> 0]))
         IN  [noiseVolumes |-> EventVolumes(currentConfig.noiseVolumes, ratios),
              rumbleIntensity |-> EventRumble(ratios, currentConfig)]

----------------------------------------------------------------------------
(* The objects a calculator is handed and the ones it writes *)

\* the new volumes written into currentConfig.noiseVolumes itself
WrittenVolumesInPlace(currentConfig, delta) == delta.noiseVolumes
\* currentConfig.noiseVolumes after a call that returned delta: the volumes are
\* written into the copy { ...currentConfig.noiseVolumes }
WrittenVolumes(currentConfig, delta) == currentConfig.noiseVolumes

\* currentConfig.eqBands after a call that returned delta: map builds a new
\* array of copies { ...band, gain }
WrittenBands(currentConfig, delta) == currentConfig.eqBands

\* currentConfig as the call leaves it
ConfigAfter(currentConfig, delta) ==
    [currentConfig EXCEPT
        !.noiseVolumes = IF "noiseVolumes" \in DOMAIN delta
                         THEN WrittenVolumes(currentConfig, delta) ELSE @,
        !.eqBands = IF "eqBands" \in DOMAIN delta
                    THEN WrittenBands(currentConfig, delta) ELSE @]

\* usePresets.updateConfig: { ...prev, ...partial }
updateConfig(prev, partial) ==
    [field \in DOMAIN prev \cup DOMAIN partial |->
        IF field \in DOMAIN partial THEN partial[field] ELSE prev[field]]

----------------------------------------------------------------------------
(* Exercising one AutoMaskingService on its own *)

\* sample rates of the analyser's AudioContext
MaskSampleRates == {8000, 16000, SampleRate}

\* magnitude 200 in every bin below 150 Hz, silence above
LowRumble(sampleRate) ==
    [i \in 1..BinCount |-> IF (i - 1) * sampleRate < 150 * 2 * BinCount THEN 200 ELSE 0]

\* frames with the lowest and the highest bins at the limits of the rumble and
\* filter tiers
LevelFrames == {Sound(140, 0, 60), Sound(141, 0, 120), Sound(60, 0, 121), Sound(99, 0, 59)}

MaskFrames ==
    AnalyzerFrames \cup {LowRumble(sampleRate) : sampleRate \in MaskSampleRates} \cup LevelFrames

MaskConfigs == {DEFAULT_CONFIG, FootstepShield, VoiceBlocker}

\* the ranges of the events clicked: the detectors' fixed ranges and ranges
\* around the 300 Hz and 1000 Hz limits
MaskRanges ==
    {[min |-> Num(lo), max |-> Num(hi)] :
        <<lo, hi>> \in {<<20, 300>>, <<100, 1000>>, <<0, 0>>, <<0, 599>>, <<100, 500>>,
                          <<799, 1200>>, <<800, 1200>>, <<1800, 2200>>, <<19800, 20000>>}}

MaskEvents ==
    LET clicked == [timestamp |-> StartTime, type |-> "generic", confidence |-> Rat(1, 2)]
    IN  {[timestamp |-> clicked.timestamp, type |-> type, confidence |-> clicked.confidence,
          frequencyRange |-> range] :
            type \in {"footstep", "friction", "generic"}, range \in MaskRanges}
        \cup {[clicked EXCEPT !.type = type] : type \in {"footstep", "friction", "generic"}}

InitMasking ==
    /\ unit = "masking"
    /\ now = 0
    /\ InitDetectors
    /\ call = [op |-> "new"]
    /\ aboveRun = 0
    /\ sinceEvent = "none"
    /\ lastEventTime = Undefined
    /\ InitHook
    /\ InitService
    /\ InitApp
    /\ budget = 0

\* AutoMaskingService.calculateOptimalSettings: one frame read from the analyser
CalculateOptimalSettings(dataArray, currentConfig, sampleRate) ==
    \E delta \in {calculateFromData(dataArray, currentConfig, sampleRate)} :
    /\ call' = [op |-> "calculateOptimalSettings", sampleRate |-> sampleRate,
                dataArray |-> dataArray, currentConfig |-> currentConfig, delta |-> delta,
                configAfter |-> ConfigAfter(currentConfig, delta)]
    /\ UNCHANGED <<unit, serviceVars, appVars, now, detectorVars, aboveRun, sinceEvent, lastEventTime, hookVars,
                   hookHistoryVars>>

\* AutoMaskingService.calculateMaskForSingleEvent on one event of the log
CalculateMaskForSingleEvent(event, currentConfig) ==
    \E delta \in {calculateMaskForSingleEvent(event, currentConfig)} :
    /\ call' = [event |-> event, op |-> "calculateMaskForSingleEvent",
                currentConfig |-> currentConfig, delta |-> delta,
                configAfter |-> ConfigAfter(currentConfig, delta)]
    /\ UNCHANGED <<unit, serviceVars, appVars, now, detectorVars, aboveRun, sinceEvent, lastEventTime, hookVars,
                   hookHistoryVars>>

\* the event logs analysed: short logs of events around the band limits, and
\* logs of ten events of which k lie low
LoggedEvent(lo, hi) ==
    [timestamp |-> StartTime, type |-> "generic", confidence |-> Rat(1, 2),
     frequencyRange |-> [min |-> Num(lo), max |-> Num(hi)]]

LoggedEvents ==
    {LoggedEvent(20, 300), LoggedEvent(0, 600), LoggedEvent(100, 1000),
     LoggedEvent(300, 2000), LoggedEvent(2000, 20000),
     [timestamp |-> StartTime, type |-> "footstep", confidence |-> Rat(1, 2)]}

TenEvents(k) ==
    [n \in 1..10 |-> IF n <= k THEN LoggedEvent(20, 300) ELSE LoggedEvent(2000, 20000)]

MaskLogs ==
    UNION {[1..n -> LoggedEvents] : n \in 0..MaxLogLength} \cup {TenEvents(k) : k \in 0..10}

\* AutoMaskingService.calculateOptimalSettingsFromEvents on the event log
CalculateOptimalSettingsFromEvents(eventLog, currentConfig) ==
    \E delta \in {calculateOptimalSettingsFromEvents(eventLog, currentConfig)} :
    /\ call' = [op |-> "calculateOptimalSettingsFromEvents", currentConfig |-> currentConfig,
                eventLog |-> eventLog, delta |-> delta,
                configAfter |-> ConfigAfter(currentConfig, delta)]
    /\ UNCHANGED <<unit, serviceVars, appVars, now, detectorVars, aboveRun, sinceEvent,
                   lastEventTime, hookVars, hookHistoryVars>>

NextMasking ==
    \/ \E dataArray \in MaskFrames, currentConfig \in MaskConfigs,
          sampleRate \in MaskSampleRates :
            CalculateOptimalSettings(dataArray, currentConfig, sampleRate)
    \/ \E event \in MaskEvents, currentConfig \in MaskConfigs :
            CalculateMaskForSingleEvent(event, currentConfig)
    \/ \E eventLog \in MaskLogs, currentConfig \in MaskConfigs :
            CalculateOptimalSettingsFromEvents(eventLog, currentConfig)

SpecMasking == InitMasking /\ [][NextMasking]_vars

----------------------------------------------------------------------------
(* Exercising one AutoMaskingService through learning sessions *)

\* silence but for the lowest bin, the only one below 150 Hz at 44100 Hz
LearnFrames == {Silence, Rumble, Impulse(0, 202), Impulse(0, 255)}

ServiceConfigs == {DEFAULT_CONFIG, FootstepShield}

ServiceLogs == {<<>>, TenEvents(3), TenEvents(4), <<LoggedEvent(100, 1000)>>}

InitLearning ==
    /\ unit = "learning"
    /\ now = 0
    /\ InitDetectors
    /\ call = [op |-> "new"]
    /\ aboveRun = 0
    /\ sinceEvent = "none"
    /\ lastEventTime = Undefined
    /\ InitHook
    /\ InitService
    /\ InitApp
    /\ budget = 0

\* window.setInterval: the id of the new timer, one that no running timer has
SetInterval(active) == CHOOSE id \in 1..(Cardinality(active) + 1) : id \notin active

\* a plausible slip: the timer is left running
ClearIntervalForgotten(active, handle) == active

\* if (this.historyInterval) clearInterval(this.historyInterval)
ClearInterval(active, handle) ==
    IF handle = Undefined THEN active ELSE active \ {handle[1]}

\* AutoMaskingService.startLearning
StartLearning ==
    /\ IF isLearning
       THEN UNCHANGED serviceVars
       ELSE /\ isLearning' = TRUE
            /\ history' = <<>>
            /\ historyInterval' = Some(SetInterval(intervals))
            /\ intervals' = intervals \cup {SetInterval(intervals)}
            /\ sampled' = <<>>
    /\ call' = [op |-> "startLearning"]
    /\ UNCHANGED <<unit, now, detectorVars, aboveRun, sinceEvent, lastEventTime, hookVars,
                   hookHistoryVars>>

\* the interval's callback: one frame read from the analyser into the history
SampleFrame(dataArray) ==
    /\ historyInterval # Undefined
    /\ historyInterval[1] \in intervals
    /\ history' = HistoryPush(history, dataArray)
    /\ sampled' = Append(sampled, dataArray)
    /\ call' = [op |-> "sample", dataArray |-> dataArray]
    /\ UNCHANGED <<unit, isLearning, historyInterval, intervals, now, detectorVars, aboveRun,
                   sinceEvent, lastEventTime, hookVars, hookHistoryVars>>

\* AutoMaskingService.stopLearning
StopLearning(currentConfig, sampleRate) ==
    \E delta \in {IF isLearning THEN LearnedSettings(history, currentConfig, sampleRate)
                  ELSE EmptyPartial} :
    /\ isLearning' = FALSE
    /\ intervals' = IF isLearning THEN ClearInterval(intervals, historyInterval) ELSE intervals
    /\ historyInterval' = IF isLearning THEN Undefined ELSE historyInterval
    /\ call' = [op |-> "stopLearning", sampleRate |-> sampleRate,
                currentConfig |-> currentConfig, delta |-> delta,
                configAfter |-> ConfigAfter(currentConfig, delta),
                wasLearning |-> isLearning]
    /\ UNCHANGED <<unit, history, sampled, now, detectorVars, aboveRun, sinceEvent,
                   lastEventTime, hookVars, hookHistoryVars>>

NextLearning ==
    \/ StartLearning /\ UNCHANGED appVars
    \/ /\ Len(sampled) < MaxSamples
       /\ \E dataArray \in LearnFrames : SampleFrame(dataArray)
       /\ UNCHANGED appVars
    \/ \E currentConfig \in ServiceConfigs :
            StopLearning(currentConfig, SampleRate) /\ UNCHANGED appVars
    \/ \E dataArray \in LearnFrames, currentConfig \in ServiceConfigs :
            CalculateOptimalSettings(dataArray, currentConfig, SampleRate)
    \/ \E event \in {LoggedEvent(20, 300), LoggedEvent(300, 2000)},
          currentConfig \in ServiceConfigs :
            CalculateMaskForSingleEvent(event, currentConfig)
    \/ \E eventLog \in ServiceLogs, currentConfig \in ServiceConfigs :
            CalculateOptimalSettingsFromEvents(eventLog, currentConfig)

SpecLearning == InitLearning /\ [][NextLearning]_vars

----------------------------------------------------------------------------
(* One long learning session, frame after frame *)

\* the frame the analyser holds at tick n: no two ticks of a session alike
TickFrame(n) == Impulse(n % BinCount, 1 + (n \div BinCount))

InitRecording ==
    /\ unit = "recording"
    /\ now = 0
    /\ InitDetectors
    /\ call = [op |-> "new"]
    /\ aboveRun = 0
    /\ sinceEvent = "none"
    /\ lastEventTime = Undefined
    /\ InitHook
    /\ InitService
    /\ InitApp
    /\ budget = 0

NextRecording ==
    \/ ~isLearning /\ StartLearning /\ UNCHANGED appVars
    \/ Len(sampled) < MaxTicks /\ SampleFrame(TickFrame(Len(sampled))) /\ UNCHANGED appVars

SpecRecording == InitRecording /\ [][NextRecording]_vars

----------------------------------------------------------------------------
(* Exercising App: the microphone button and the learning button *)

\* new AutoMaskingService(micRef.current); the timers of the window go on
NewService ==
    /\ isLearning' = FALSE
    /\ history' = <<>>
    /\ historyInterval' = Undefined
    /\ sampled' = <<>>
    /\ UNCHANGED intervals

\* App.handleMicToggle; ok: what micRef.current.start() resolves to
HandleMicToggle(ok) ==
    /\ IF micActive
       THEN /\ micActive' = FALSE
            /\ appIsLearning' = FALSE
            /\ autoMaskingRef' = FALSE
            /\ UNCHANGED serviceVars
       ELSE IF ok
            THEN /\ micActive' = TRUE
                 /\ autoMaskingRef' = TRUE
                 /\ NewService
                 /\ UNCHANGED appIsLearning
            ELSE UNCHANGED <<serviceVars, appVars>>
    /\ call' = [op |-> "handleMicToggle", ok |-> ok, wasActive |-> micActive]
    /\ UNCHANGED <<unit, now, detectorVars, aboveRun, sinceEvent, lastEventTime, hookVars,
                   hookHistoryVars>>

\* App.handleToggleLearning; currentConfig: presets.currentConfig
HandleToggleLearning(currentConfig) ==
    IF ~autoMaskingRef
    THEN /\ call' = [op |-> "handleToggleLearning"]
         /\ UNCHANGED <<unit, serviceVars, appVars, now, detectorVars, aboveRun, sinceEvent,
                        lastEventTime, hookVars, hookHistoryVars>>
    ELSE IF appIsLearning
         THEN /\ StopLearning(currentConfig, SampleRate)
              /\ appIsLearning' = FALSE
              /\ UNCHANGED <<micActive, autoMaskingRef>>
         ELSE /\ StartLearning
              /\ appIsLearning' = TRUE
              /\ UNCHANGED <<micActive, autoMaskingRef>>

InitAppSession ==
    /\ unit = "app"
    /\ now = 0
    /\ InitDetectors
    /\ call = [op |-> "new"]
    /\ aboveRun = 0
    /\ sinceEvent = "none"
    /\ lastEventTime = Undefined
    /\ InitHook
    /\ InitService
    /\ InitApp
    /\ budget = 0

\* the frames a session samples: silence, or some energy in every band
AppFrames == {Silence, Rumble}

NextApp ==
    \/ \E ok \in BOOLEAN : HandleMicToggle(ok)
    \/ /\ (autoMaskingRef /\ ~appIsLearning) => Cardinality(intervals) < MaxTimers
       /\ \E currentConfig \in {DEFAULT_CONFIG} : HandleToggleLearning(currentConfig)
    \/ /\ Len(sampled) < MaxSamples
       /\ \E dataArray \in AppFrames : SampleFrame(dataArray)
       /\ UNCHANGED appVars

SpecApp == InitAppSession /\ [][NextApp]_vars

----------------------------------------------------------------------------
(* Exact arithmetic for the noise buffers.  A sample is the quotient        *)
(* <<n, d>> of two decimal numbers, d positive; a decimal number is a       *)
(* sequence of DecLimbs digits of base 1000, lowest first, of which the     *)
(* first FracLimbs are fractional and the last one carries the sign.        *)

DecBase == 1000
\* digits after the point: enough for every product of a buffer of MaxNoiseSamples
FracLimbs == (10 * MaxNoiseSamples + 7) \div 3
DecLimbs == FracLimbs + 2

\* the digits again after the carries have moved up; the last one takes what is left
RECURSIVE DecCarryFrom(_, _, _)
DecCarryFrom(l, i, carry) ==
    IF i = Len(l) THEN <<l[i] + carry>>
    ELSE <<(l[i] + carry) % DecBase>> \o DecCarryFrom(l, i + 1, (l[i] + carry) \div DecBase)

DecCarry(l) == DecCarryFrom(l, 1, 0)

RECURSIVE Pow10(_)
Pow10(k) == IF k = 0 THEN 1 ELSE 10 * Pow10(k - 1)

\* n * 10^-e
Dec(n, e) ==
    DecCarry([i \in 1..DecLimbs |->
                IF i = ((3 * FracLimbs - e) \div 3) + 1
                THEN n * Pow10((3 * FracLimbs - e) % 3) ELSE 0])

DecZero == Dec(0, 0)
DecOne == Dec(1, 0)

DecAdd(a, b) == DecCarry([i \in 1..DecLimbs |-> a[i] + b[i]])
DecNeg(a) == DecCarry([i \in 1..DecLimbs |-> 0 - a[i]])

\* the sum of the products a[i] * b[j] of weight n = i + j - 1, from i on
RECURSIVE DecProductAt(_, _, _, _)
DecProductAt(a, b, n, i) ==
    IF i > Len(a) \/ i > n THEN 0
    ELSE (IF n + 1 - i <= Len(b) THEN a[i] * b[n + 1 - i] ELSE 0)
         + DecProductAt(a, b, n, i + 1)

RECURSIVE DecProducts(_, _, _)
DecProducts(a, b, n) ==
    IF n > Len(a) + Len(b) - 1 THEN <<>>
    ELSE <<DecProductAt(a, b, n, 1)>> \o DecProducts(a, b, n + 1)

\* the digits from position i up taken as one number
RECURSIVE DecFold(_, _)
DecFold(l, i) == IF i = Len(l) THEN l[i] ELSE l[i] + DecBase * DecFold(l, i + 1)

\* the product with its FracLimbs lowest digits, all 0, dropped
DecShift(l) ==
    [i \in 1..DecLimbs |->
        IF i < DecLimbs THEN l[FracLimbs + i] ELSE DecFold(l, FracLimbs + DecLimbs)]

DecMul(a, b) ==
    IF b = DecOne THEN a
    ELSE IF a = DecOne THEN b
    ELSE DecCarry(DecShift(DecCarry(DecProducts(a, b, 1))))

DecNegative(a) == a[DecLimbs] < 0
DecLe(a, b) == ~DecNegative(DecAdd(b, DecNeg(a)))

\* a decimal number as a sample
QNum(n, e) == <<Dec(n, e), DecOne>>
QAdd(a, b) ==
    IF a[2] = b[2] THEN <<DecAdd(a[1], b[1]), a[2]>>
    ELSE <<DecAdd(DecMul(a[1], b[2]), DecMul(b[1], a[2])), DecMul(a[2], b[2])>>
QNeg(a) == <<DecNeg(a[1]), a[2]>>
QSub(a, b) == QAdd(a, QNeg(b))
QMul(a, b) == <<DecMul(a[1], b[1]), DecMul(a[2], b[2])>>
\* a / b
QDiv(a, b) ==
    IF DecNegative(b[1])
    THEN <<DecNeg(DecMul(a[1], b[2])), DecNeg(DecMul(a[2], b[1]))>>
    ELSE <<DecMul(a[1], b[2]), DecMul(a[2], b[1])>>
QLe(a, b) == DecLe(DecMul(a[1], b[2]), DecMul(b[1], a[2]))
QEq(a, b) == DecMul(a[1], b[2]) = DecMul(b[1], a[2])

----------------------------------------------------------------------------
(* NoiseGenerator *)

\* new NoiseGenerator(context, duration): bufferSize = context.sampleRate * duration
BufferSize(sampleRate, duration) == Norm(RMul(Num(sampleRate), duration))

\* Math.random() * 2 - 1, in tenths
WhiteTenths == {-10, -5, 0, 5, 9}
WhiteSamples == {QNum(t, 1) : t \in WhiteTenths}

\* the pink filter before the first sample: b0 .. b6
PinkStart == <<QNum(0, 0), QNum(0, 0), QNum(0, 0), QNum(0, 0), QNum(0, 0), QNum(0, 0),
               QNum(0, 0)>>

\* b0 .. b5 after the sample w
PinkPoles(b, w) ==
    <<QAdd(QMul(QNum(99886, 5), b[1]), QMul(w, QNum(555179, 7))),
      QAdd(QMul(QNum(99332, 5), b[2]), QMul(w, QNum(750759, 7))),
      QAdd(QMul(QNum(96900, 5), b[3]), QMul(w, QNum(1538520, 7))),
      QAdd(QMul(QNum(86650, 5), b[4]), QMul(w, QNum(3104856, 7))),
      QAdd(QMul(QNum(55000, 5), b[5]), QMul(w, QNum(5329522, 7))),
      QSub(QMul(QNum(-7616, 4), b[6]), QMul(w, QNum(168980, 7)))>>

\* val, from the new b0 .. b5, the old b6 and the sample
PinkValue(poles, b6, w) ==
    QMul(QAdd(QAdd(QAdd(QAdd(QAdd(QAdd(QAdd(poles[1], poles[2]), poles[3]), poles[4]),
                             poles[5]), poles[6]), b6), QMul(w, QNum(5362, 4))),
         QNum(11, 2))

\* one pass of fillPinkCircular from sample i on: the filter state and the
\* samples written, which pass 0 does not
RECURSIVE PinkPass(_, _, _, _, _)
\* the rest of the loop body once b0 .. b5 are updated
PinkWrite(white, pass, i, poles, b6, out) ==
    PinkPass(white, pass, i + 1, poles \o <<QMul(white[i + 1], QNum(115926, 6))>>,
             IF pass = 1 THEN Append(out, PinkValue(poles, b6, white[i + 1])) ELSE out)

PinkPass(white, pass, i, b, out) ==
    IF i >= Len(white) THEN <<b, out>>
    ELSE PinkWrite(white, pass, i, PinkPoles(b, white[i + 1]), b[7], out)

\* lastOut after the sample w: the leaky integrator
BrownNext(lastOut, w) == QDiv(QAdd(lastOut, QMul(QNum(2, 2), w)), QNum(102, 2))

\* one pass of fillBrownCircular: lastOut and the samples written
RECURSIVE BrownPass(_, _, _, _, _)
BrownWrite(white, pass, i, lastOut, out) ==
    BrownPass(white, pass, i + 1, lastOut,
              IF pass = 1 THEN Append(out, QMul(lastOut, QNum(35, 1))) ELSE out)

BrownPass(white, pass, i, lastOut, out) ==
    IF i >= Len(white) THEN <<lastOut, out>>
    ELSE BrownWrite(white, pass, i, BrownNext(lastOut, white[i + 1]), out)

\* one pass of fillBlueCircular: prev and the samples written
RECURSIVE BluePass(_, _, _, _, _)
BluePass(white, pass, i, prev, out) ==
    IF i >= Len(white) THEN <<prev, out>>
    ELSE BluePass(white, pass, i + 1, white[i + 1],
                  IF pass = 1
                  THEN Append(out, QMul(QSub(white[i + 1], prev), QNum(5, 1)))
                  ELSE out)

\* one pass of fillVioletCircular: <<prev1, prev2>> and the samples written
RECURSIVE VioletPass(_, _, _, _, _)
VioletPass(white, pass, i, prev, out) ==
    IF i >= Len(white) THEN <<prev, out>>
    ELSE VioletPass(white, pass, i + 1, <<white[i + 1], prev[1]>>,
                    IF pass = 1
                    THEN Append(out, QMul(QAdd(QSub(white[i + 1], QMul(QNum(2, 0), prev[1])),
                                               prev[2]), QNum(35, 2)))
                    ELSE out)

\* one pass of the filter of a colour over the white source
FilterPass(type, white, pass, state) ==
    CASE type = "pink" -> PinkPass(white, pass, 0, state, <<>>)
      [] type = "brown" -> BrownPass(white, pass, 0, state, <<>>)
      [] type = "blue" -> BluePass(white, pass, 0, state, <<>>)
      [] type = "violet" -> VioletPass(white, pass, 0, state, <<>>)

\* the filter state before pass 0
FilterStart(type) ==
    CASE type = "pink" -> PinkStart
      [] type = "brown" -> QNum(0, 0)
      [] type = "blue" -> QNum(0, 0)
      [] type = "violet" -> <<QNum(0, 0), QNum(0, 0)>>

\* the two passes: the state and the samples written after pass 0 and after pass 1
FillCircular(type, white) ==
    LET first == FilterPass(type, white, 0, FilterStart(type))
    IN  <<first, FilterPass(type, white, 1, first[1])>>

\* outData after the switch of createNoiseBuffer, given the passes of the filter
OutData(type, whiteSource, passes) == IF type = "white" THEN whiteSource ELSE passes[2][2]

----------------------------------------------------------------------------
(* Exercising one NoiseGenerator *)

NoiseTypes == {"white", "pink", "brown", "blue", "violet"}

\* durations of 1 .. MaxNoiseSamples samples at the sample rate of the context
NoiseDurations == {Rat(n, SampleRate) : n \in 1..MaxNoiseSamples}

\* a new NoiseGenerator(context, duration), with the colour asked of it and
\* the white source Math.random() is about to give
InitNoise ==
    /\ unit = "noise"
    /\ now = 0
    /\ InitDetectors
    /\ \E type \in NoiseTypes, duration \in NoiseDurations :
        \E whiteSource \in [1..BufferSize(SampleRate, duration)[1] -> WhiteSamples] :
            call = [type |-> type, op |-> "new", sampleRate |-> SampleRate,
                    duration |-> duration, whiteSource |-> whiteSource]
    /\ aboveRun = 0
    /\ sinceEvent = "none"
    /\ lastEventTime = Undefined
    /\ InitHook
    /\ InitService
    /\ InitApp
    /\ budget = 0

\* NoiseGenerator.createNoiseBuffer(type)
CreateNoiseBuffer(type, sampleRate, duration, whiteSource) ==
    /\ call.op = "new"
    /\ BufferSize(sampleRate, duration) = Num(Len(whiteSource))
    /\ \E passes \in {IF type = "white" THEN <<>> ELSE FillCircular(type, whiteSource)} :
        call' = [type |-> type, op |-> "createNoiseBuffer", sampleRate |-> sampleRate,
                 duration |-> duration, whiteSource |-> whiteSource, passes |-> passes,
                 buffer |-> OutData(type, whiteSource, passes)]
    /\ UNCHANGED <<unit, serviceVars, appVars, now, detectorVars, aboveRun, sinceEvent,
                   lastEventTime, hookVars, hookHistoryVars>>

NextNoise == CreateNoiseBuffer(call.type, call.sampleRate, call.duration, call.whiteSource)

SpecNoise == InitNoise /\ [][NextNoise]_vars

----------------------------------------------------------------------------
(* Properties of the single detectors *)

IsDetect(u) == unit = u /\ call.op = "detect"
Emitted == call.event # Undefined

CooldownOf(u) == IF u = "footstep" THEN 300 ELSE 500
ClaimTrigger(u, f, c) ==
    IF u = "footstep" THEN ClaimFootstepTrigger(f, c) ELSE ClaimGeneralTrigger(f, c)

\* what C3 says of a detect call made after an event at t0
CooldownHolds(u) ==
    LET t0 == call.pre.lastEventTime[1]
        t == call.timestamp
    IN /\ (t < t0 + CooldownOf(u) => ~Emitted)
       /\ (t >= t0 + CooldownOf(u) /\ ClaimTrigger(u, call.features, call.config) => Emitted)
       /\ (Emitted => t - t0 >= CooldownOf(u))

\* C3 as stated: with non-decreasing timestamps, after an event at t0 every
\* detect call before t0 + cooldown returns null, a triggering call at or
\* after it emits, and two events of one instance are at least the cooldown
\* apart (300 ms footstep, 500 ms generic).
CooldownAfterEveryEvent ==
    \A u \in {"footstep", "general"} :
        (IsDetect(u) /\ call.pre.lastEventTime # Undefined) => CooldownHolds(u)

\* C3 amended: the same, as long as reset() was not called since the event.
CooldownUntilReset ==
    \A u \in {"footstep", "general"} :
        (IsDetect(u) /\ call.pre.lastEventTime # Undefined /\ call.pre.sinceEvent = "clean")
            => CooldownHolds(u)

\* a footstep event exactly 300 ms after the previous one
CooldownBoundarySeen ==
    /\ IsDetect("footstep") /\ Emitted /\ call.pre.sinceEvent = "clean"
    /\ call.timestamp = call.pre.lastEventTime[1] + 300

GeneralNeverBelowBaseFlux ==
    (IsDetect("general") /\ Emitted) => call.features.spectralFlux >= 500

\* C8 amended: GeneralDetector never emits for a frame whose flux is not above
\* 500 / genericSensitivity; so never below 500 when the sensitivity is at
\* most 1 (the default).
GeneralNeverBelowEffectiveFlux ==
    (IsDetect("general") /\ Emitted) =>
        /\ ClaimAbove(call.features.spectralFlux, Num(500),
                      ClaimField(call.config, "genericSensitivity", Num(1)))
        /\ (RLe(ClaimField(call.config, "genericSensitivity", Num(1)), Num(1))
                => call.features.spectralFlux >= 500)

\* loud enough and out of cooldown, but the flux is not above 500/sensitivity
GeneralStationarySeen ==
    /\ IsDetect("general") /\ ~Emitted
    /\ ~(call.timestamp - call.pre.lastDetectionTime < 500)
    /\ call.features.energy = 8001 /\ call.features.spectralFlux = 250
    /\ ClaimField(call.config, "genericSensitivity", Num(1)) = Num(2)

\* the config of the last call with one field set to v
WithField(config, field, v) ==
    Some([(IF config = Undefined
           THEN DetectionConfig(One, Undefined, One, Undefined, One, Undefined)
           ELSE config[1]) EXCEPT ![field] = Some(v)])

SensitivityField(u) ==
    CASE u = "footstep" -> "footstepSensitivity"
      [] u = "friction" -> "frictionSensitivity"
      [] OTHER -> "genericSensitivity"
ThresholdField(u) ==
    CASE u = "footstep" -> "footstepThreshold"
      [] u = "friction" -> "frictionThreshold"
      [] OTHER -> "genericThreshold"
BuiltInThreshold(u) ==
    CASE u = "footstep" -> 80
      [] u = "friction" -> 40
      [] OTHER -> 5000

\* whether the last call, repeated from the same detector state with the same
\* features and timestamp but with config c, triggers: Footstep and General
\* emit, Friction counts the frame as above the threshold
TriggersWith(c) ==
    CASE unit = "footstep" ->
            FootstepDetect(call.pre.lastDetectionTime, call.features, call.timestamp, c).event
                # Undefined
      [] unit = "friction" ->
            FrictionDetect(call.pre.continuousFrames, call.pre.isDetecting,
                           call.features, call.timestamp, c).continuousFrames
                = call.pre.continuousFrames + 1
      [] OTHER ->
            GeneralDetect(call.pre.lastDetectionTime, call.features, call.timestamp, c).event
                # Undefined
\* whether the last call did trigger
Triggered ==
    IF unit = "friction" THEN continuousFrames = call.pre.continuousFrames + 1 ELSE Emitted

\* the sensitivities of the UI slider: 0.1 to 5.0 in steps of 0.1
SensitivityGrid == {Rat(k, 10) : k \in 1..50}
ThresholdGrid == {Num(k) : k \in {0, 20, 39, 40, 41, 79, 80, 81, 100, 200, 201, 4999, 5000, 5001, 8000, 8001, 10000}}

\* C9: for each detector, if a call triggers with sensitivity s > 0 then the
\* same call in the same state with any higher sensitivity triggers as well.
SensitivityMonotone ==
    (call.op = "detect" /\ Triggered) =>
        \A s2 \in SensitivityGrid :
            RGt(s2, ClaimField(call.config, SensitivityField(unit), Num(1)))
                => TriggersWith(WithField(call.config, SensitivityField(unit), s2))

\* a friction frame counted at sensitivity 0.5, the lowest exercised
SensitivityLowTriggerSeen ==
    /\ IsDetect("friction") /\ Triggered
    /\ ClaimField(call.config, "frictionSensitivity", Num(1)) = Rat(1, 2)

NoEventSinceIdle == call.pre.sinceEvent # "clean"

\* C13: a fresh detector, and one just reset, holds its initial values, and
\* the first FootstepDetector or GeneralDetector call after that whose
\* features meet the trigger condition emits, whatever its timestamp.
FreshDetectorEmits ==
    /\ call.op \in {"new", "reset"} =>
          CASE unit = "footstep" -> footstepLastDetectionTime = 0
            [] unit = "friction" -> continuousFrames = 0 /\ ~isDetecting
            [] OTHER -> generalLastDetectionTime = 0
    /\ \A u \in {"footstep", "general"} :
          (IsDetect(u) /\ NoEventSinceIdle /\ ClaimTrigger(u, call.features, call.config))
              => Emitted

\* the same for timestamps that are at least the cooldown length
FreshDetectorEmitsAfterCooldownLength ==
    \A u \in {"footstep", "general"} :
        (/\ IsDetect(u) /\ NoEventSinceIdle /\ ClaimTrigger(u, call.features, call.config)
         /\ call.timestamp >= CooldownOf(u))
            => Emitted

ConfidenceInUnitIntervalPositive ==
    (/\ call.op = "detect" /\ Emitted
     /\ \A f \in {"footstepThreshold", "frictionThreshold", "genericThreshold"} :
            ClaimField(call.config, f, Num(1))[1] > 0) =>
        /\ call.event[1].confidence[1] >= 0
        /\ call.event[1].confidence[1] <= call.event[1].confidence[2]

----------------------------------------------------------------------------
(* Properties of the analysis loop *)

Range(q) == {q[i] : i \in 1..Len(q)}

\* the last frame was an analysis frame that ran the detectors
Detected == frame.n > 0 /\ ~frame.calibrating

BothFired == Detected /\ frame.footstepRaw # Undefined /\ frame.frictionRaw # Undefined

\* confidence a >= confidence b, on the events' own numbers
ClaimAtLeast(a, b) == a.confidence[1] * b.confidence[2] >= b.confidence[1] * a.confidence[2]

\* C5: in a frame in which both the footstep and the friction detector
\* return an event, exactly one of the two is in the log after the frame:
\* the one with the higher confidence, the footstep one on a tie; and no
\* event dropped by the arbitration is ever in the log or appended to it.
ArbitrationKeepsHigherConfidence ==
    /\ BothFired =>
          LET f == frame.footstepRaw[1]
              r == frame.frictionRaw[1]
              winner == IF ClaimAtLeast(f, r) THEN f ELSE r
              loser == IF ClaimAtLeast(f, r) THEN r ELSE f
          IN /\ Len(frame.log) > 0
             /\ frame.log[Len(frame.log)].timestamp = frame.timestamp
             /\ winner \in Range(frame.log)
             /\ loser \notin Range(frame.log)
    /\ \A e \in discarded : e \notin Range(events) /\ e \notin Range(appended)

\* C5 witness: both detectors fired with equal confidence, and the footstep
\* event is the one in the log
ArbitrationTieSeen ==
    /\ BothFired
    /\ frame.footstepRaw[1].confidence = frame.frictionRaw[1].confidence
    /\ frame.footstepRaw[1] \in Range(events)
    /\ frame.frictionRaw[1] \in discarded

\* both fired and the friction event had the higher confidence
ArbitrationFrictionWinsSeen ==
    /\ BothFired
    /\ ~ClaimAtLeast(frame.footstepRaw[1], frame.frictionRaw[1])
    /\ frame.frictionRaw[1] \in Range(events)

\* both fired and the footstep event had the strictly higher confidence
ArbitrationFootstepWinsSeen ==
    /\ BothFired
    /\ ~ClaimAtLeast(frame.frictionRaw[1], frame.footstepRaw[1])
    /\ frame.footstepRaw[1] \in Range(events)

\* the types of the events the last frame put in the log
LoggedTypes == {e.type : e \in {x \in Range(frame.log) : x.timestamp = frame.timestamp}}

\* C6: the general detector is invoked in a frame only if, after the other
\* two have run, friction is not sustaining and neither returned an event;
\* so a frame logs no generic event while friction is sustaining or along
\* with a footstep or friction event.
GeneralOnlyWhenQuiet ==
    Detected =>
      /\ (frame.generalCalled \/ frame.generalAfter # frame.generalBefore
                              \/ frame.generalRaw # Undefined)
            => /\ ~frame.sustaining
               /\ frame.footstepRaw = Undefined
               /\ frame.frictionRaw = Undefined
      /\ "generic" \in LoggedTypes
            => ~frame.sustaining /\ LoggedTypes = {"generic"}

\* C6 witness: a frame loud and changing enough for a generic event, with the
\* general detector out of its cooldown, in which it was not invoked because
\* friction was sustaining
GeneralSuppressedSeen ==
    /\ Detected
    /\ frame.sustaining
    /\ frame.footstepRaw = Undefined /\ frame.frictionRaw = Undefined
    /\ ClaimGeneralTrigger(frame.features, Some(frame.config))
    /\ frame.timestamp - frame.generalBefore >= 500
    /\ ~frame.generalCalled

\* the same, suppressed by a footstep event of the frame
GeneralSuppressedByFootstepSeen ==
    /\ Detected
    /\ ~frame.sustaining
    /\ frame.footstepRaw # Undefined
    /\ ClaimGeneralTrigger(frame.features, Some(frame.config))
    /\ frame.timestamp - frame.generalBefore >= 500
    /\ ~frame.generalCalled

\* a generic event logged
GeneralLoggedSeen == Detected /\ "generic" \in LoggedTypes

\* C12: every event emitted has frequencyRange.min <= frequencyRange.max.
FrequencyRangeOrdered ==
    \A e \in Range(appended) :
        /\ e.frequencyRange.min # NaN
        /\ e.frequencyRange.max # NaN
        /\ e.frequencyRange.min[1] * e.frequencyRange.max[2]
                <= e.frequencyRange.max[1] * e.frequencyRange.min[2]

\* the same for the events whose peak frequency is at most 20200 Hz
FrequencyRangeOrderedBelowCap ==
    Detected =>
        \A e \in {x \in Range(frame.log) : x.timestamp = frame.timestamp} :
            RLe(frame.features.peakFrequency[1], Num(20200)) =>
                /\ e.frequencyRange.min # NaN
                /\ RLe(e.frequencyRange.min, e.frequencyRange.max)

\* the events appended since the log was last cleared
SinceCleared == SubSeq(appended, clearedAt + 1, Len(appended))

\* C7: the log never holds more than 50 events, and it is the last
\* min(50, n) of the n events emitted since it was last cleared, in order.
LogIsLastFifty ==
    /\ Len(events) <= 50
    /\ LET n == Len(SinceCleared)
           k == IF n < 50 THEN n ELSE 50
       IN events = SubSeq(SinceCleared, n - k + 1, n)

\* C7 witness: more than 50 events emitted since the last clear, the oldest
\* evicted
LogEvictionSeen ==
    /\ Len(SinceCleared) > 50
    /\ Len(events) = 50
    /\ events[1] # SinceCleared[1]
    /\ events[50] = SinceCleared[Len(SinceCleared)]

----------------------------------------------------------------------------
(* Properties of the SpectralAnalyzer *)

Analyzed == call.op = "analyze"

AllZero(data) == \A i \in 1..Len(data) : data[i] = 0

\* C14: an all-zero frame gives energy 0, the three band energies 0,
\* centroid 0 and peak frequency 0, and flux 0 on a first call and after
\* another all-zero frame.
AllZeroFrameFeatures ==
    (Analyzed /\ AllZero(call.data)) =>
        /\ call.features.energy = 0
        /\ call.features.lowBandEnergy = 0
        /\ call.features.midBandEnergy = 0
        /\ call.features.highBandEnergy = 0
        /\ call.features.spectralCentroid = <<0, 1>>
        /\ call.features.peakFrequency = <<(<<0, 1>>)>>
        /\ (call.before = Undefined \/ AllZero(call.before[1]))
                => call.features.spectralFlux = 0

\* C14 witness: an all-zero frame analyzed right after another one
RepeatedSilenceSeen ==
    Analyzed /\ AllZero(call.data) /\ call.before # Undefined /\ AllZero(call.before[1])

\* sum over the bins 1..n of |a - b|
RECURSIVE ClaimDistance(_, _, _)
ClaimDistance(a, b, n) ==
    IF n = 0 THEN 0
    ELSE ClaimDistance(a, b, n - 1) + (IF a[n] >= b[n] THEN a[n] - b[n] ELSE b[n] - a[n])

\* C15: flux is 0 on the first call after construction or reset(), and
\* otherwise the sum over the bins of |current - previous| for the frame of
\* the call before; so 0 for a repeated frame and M for silence followed by
\* a one-bin impulse of magnitude M.
FluxIsDistanceToPreviousFrame ==
    Analyzed =>
        call.features.spectralFlux =
            IF call.before = Undefined THEN 0
            ELSE ClaimDistance(call.data, call.before[1], Len(call.data))

\* C15 witness: an impulse of magnitude 200 after silence, flux 200
FluxOfImpulseSeen ==
    /\ Analyzed /\ call.before = <<Silence>>
    /\ call.data = Impulse(3, 200)
    /\ call.features.spectralFlux = 200

\* silence after an impulse: the flux is the magnitude again
FluxOfDecaySeen ==
    /\ Analyzed /\ call.data = Silence
    /\ call.before = <<Impulse(3, 200)>>
    /\ call.features.spectralFlux = 200

\* C16: in the analysis loop, which refills one shared array for every
\* frame, the flux of a frame is computed against the values the array held
\* at the previous call.
HistoryIsPrivateCopy ==
    (frame.n > 0 /\ frame.given # Undefined) =>
        frame.features.spectralFlux =
            IF frame.before = Undefined THEN 0
            ELSE ClaimDistance(frame.given[1], frame.before[1], Len(frame.given[1]))

\* C16 witness: the array refilled with a different frame, flux above 0
RefilledArraySeen ==
    /\ frame.n > 1
    /\ frame.before # Undefined /\ frame.before # frame.given
    /\ frame.features.spectralFlux > 0

\* the band of bin i of n: low below 300 Hz, mid in [300, 2000), else high
ClaimBandOf(i, n) ==
    IF RLt(Rat(i * 22050, n), Num(300)) THEN "low"
    ELSE IF RLt(Rat(i * 22050, n), Num(2000)) THEN "mid" ELSE "high"

RECURSIVE ClaimBandSum(_, _, _)
ClaimBandSum(data, band, n) ==
    IF n = 0 THEN 0
    ELSE ClaimBandSum(data, band, n - 1)
            + (IF ClaimBandOf(n - 1, Len(data)) = band THEN data[n] ELSE 0)

\* C17: each bin is counted in exactly one band, so the three band energies
\* are the sums over their bins and add up to energy, the sum of all bins.
BandsPartitionEnergy ==
    Analyzed =>
        /\ call.features.lowBandEnergy = ClaimBandSum(call.data, "low", Len(call.data))
        /\ call.features.midBandEnergy = ClaimBandSum(call.data, "mid", Len(call.data))
        /\ call.features.highBandEnergy = ClaimBandSum(call.data, "high", Len(call.data))
        /\ call.features.energy = ClaimDistance(call.data, Silence, Len(call.data))
        /\ call.features.lowBandEnergy + call.features.midBandEnergy
                + call.features.highBandEnergy = call.features.energy

\* C17 witness: a frame with energy in each of the three bands
ThreeBandsSeen ==
    /\ Analyzed
    /\ call.features.lowBandEnergy > 0
    /\ call.features.midBandEnergy > 0
    /\ call.features.highBandEnergy > 0

----------------------------------------------------------------------------
(* Properties of the AutoMaskingService *)

Instantaneous == unit = "masking" /\ call.op = "calculateOptimalSettings"
SingleEvent == unit = "masking" /\ call.op = "calculateMaskForSingleEvent"

\* bin i of n lies below hz at the given sample rate: i * (sampleRate / 2) / n < hz
ClaimBinBelow(i, n, sampleRate, hz) == i * sampleRate < 2 * n * hz

\* magnitude 200 in every bin below 150 Hz and 0 in every other bin
ClaimLowOnlyFrame(data, sampleRate) ==
    \A i \in 1..Len(data) :
        data[i] = IF ClaimBinBelow(i - 1, Len(data), sampleRate, 150) THEN 200 ELSE 0

LowOnlyCall == Instantaneous /\ ClaimLowOnlyFrame(call.dataArray, call.sampleRate)

\* C18 as stated: instantaneous mode on a frame with 200 in every bin below
\* 150 Hz and 0 elsewhere returns brown > pink > white, both strictly.
LowFrameBrownPinkWhiteStrict ==
    LowOnlyCall =>
        /\ RGt(call.delta.noiseVolumes.brown, call.delta.noiseVolumes.pink)
        /\ RGt(call.delta.noiseVolumes.pink, call.delta.noiseVolumes.white)

\* C18: instantaneous mode on a frame with 200 in every bin below 150 Hz and 0
\* elsewhere returns brown > pink >= white: brown strictly above pink, and pink
\* not below white.
LowFrameBrownAbovePinkAndWhite ==
    LowOnlyCall =>
        /\ RGt(call.delta.noiseVolumes.brown, call.delta.noiseVolumes.pink)
        /\ RGe(call.delta.noiseVolumes.pink, call.delta.noiseVolumes.white)

\* a low-only frame with more than one bin below 150 Hz has been analysed
LowFrameSeen ==
    /\ LowOnlyCall
    /\ call.dataArray[2] = 200
    /\ call.delta.noiseVolumes.brown = Num(1)

\* C19: single-event mode returns brown >= 0.6 for every footstep event and
\* pink >= 0.5 for every friction event, whatever the range of the event and
\* the current configuration.
TypeFloors ==
    SingleEvent =>
        /\ call.event.type = "footstep" =>
                call.delta.noiseVolumes.brown[1] * 5 >= 3 * call.delta.noiseVolumes.brown[2]
        /\ call.event.type = "friction" =>
                call.delta.noiseVolumes.pink[1] * 2 >= call.delta.noiseVolumes.pink[2]

\* the floor raised a colour: a friction event of low center, whose pink the
\* primary colour left at 0.2, returned with pink 0.5
FrictionFloorSeen ==
    /\ SingleEvent
    /\ call.event.type = "friction"
    /\ "frequencyRange" \in DOMAIN call.event
    /\ call.event.frequencyRange = [min |-> Num(0), max |-> Num(599)]
    /\ call.currentConfig = VoiceBlocker
    /\ call.delta.noiseVolumes.pink = Rat(1, 2)

\* a footstep event of the detector's range {20, 300} returned with brown 0.7
FootstepFloorSeen ==
    /\ SingleEvent
    /\ call.event.type = "footstep"
    /\ "frequencyRange" \in DOMAIN call.event
    /\ call.event.frequencyRange = [min |-> Num(20), max |-> Num(300)]
    /\ call.delta.noiseVolumes.brown = Rat(7, 10)

\* twice the center of the clicked event's range: min + max, 0 without a range
ClaimTwiceCenter(event) ==
    IF "frequencyRange" \in DOMAIN event
    THEN RAdd(event.frequencyRange.min, event.frequencyRange.max) ELSE Num(0)

\* colour c is strictly louder than each of the other four
ClaimDominant(noiseVolumes, c) ==
    \A other \in DOMAIN noiseVolumes \ {c} : RGt(noiseVolumes[c], noiseVolumes[other])

ClaimLowCenter(event) == RLt(ClaimTwiceCenter(event), Num(600))
ClaimHighCenter(event) == RGe(ClaimTwiceCenter(event), Num(2000))

WhiteDominantSeen ==
    /\ SingleEvent
    /\ call.event.type = "friction"
    /\ ClaimTwiceCenter(call.event) = Num(2000)
    /\ ClaimDominant(call.delta.noiseVolumes, "white")

\* an event whose center is exactly 300 Hz returned pink-dominant
PinkDominantSeen ==
    /\ SingleEvent
    /\ ClaimTwiceCenter(call.event) = Num(600)
    /\ ClaimDominant(call.delta.noiseVolumes, "pink")

----------------------------------------------------------------------------
(* Properties of the AutoMaskingService: the delta and the learning session *)

\* one of the four calculators has returned
Calculated ==
    call.op \in {"calculateOptimalSettings", "stopLearning",
                 "calculateOptimalSettingsFromEvents", "calculateMaskForSingleEvent"}

\* the fields no calculator returns
ClaimUntouchedFields ==
    {"masterVolume", "envMasterVolume", "modulation", "neighborSafe", "neighborSafeFreq",
     "roomSize"}

\* C21: a calculator call in any of the four modes does not modify the
\* currentConfig it is passed, its noiseVolumes and eqBands included, and
\* merging the returned delta into that config with updateConfig leaves
\* masterVolume, envMasterVolume, modulation, neighborSafe, neighborSafeFreq and
\* roomSize as they were.
DeltaIsPartialAndConfigUntouched ==
    Calculated =>
        /\ call.configAfter = call.currentConfig
        /\ \A field \in ClaimUntouchedFields :
                updateConfig(call.currentConfig, call.delta)[field] = call.currentConfig[field]

\* a learning session over the Footstep Shield returned new volumes and new bands
LearnedDeltaSeen ==
    /\ call.op = "stopLearning"
    /\ call.wasLearning
    /\ call.currentConfig = FootstepShield
    /\ DOMAIN call.delta # {}
    /\ call.delta.noiseVolumes # call.currentConfig.noiseVolumes
    /\ call.delta.eqBands # call.currentConfig.eqBands
    /\ updateConfig(call.currentConfig, call.delta).eqBands = call.delta.eqBands

\* C22: stopLearning returns {} when no learning session is active, changing
\* no state of the service, and when the session collected no frame;
\* calculateOptimalSettingsFromEvents returns {} for an empty event log.
NothingToLearnFromReturnsEmpty ==
    /\ [](/\ (call.op = "stopLearning" /\ (~call.wasLearning \/ history = <<>>))
                => DOMAIN call.delta = {}
          /\ (call.op = "calculateOptimalSettingsFromEvents" /\ call.eventLog = <<>>)
                => DOMAIN call.delta = {})
    /\ [][(~isLearning /\ call'.op = "stopLearning") => UNCHANGED serviceVars]_vars

\* a session was started and stopped before the first frame was sampled
EmptySessionStopped ==
    /\ call.op = "stopLearning"
    /\ call.wasLearning
    /\ history = <<>>
    /\ ~isLearning
    /\ historyInterval = Undefined
    /\ DOMAIN call.delta = {}

\* the last k elements of a sequence
ClaimLast(s, k) == [i \in 1..k |-> s[Len(s) - k + i]]

\* C23: the learned history never holds more than 600 frames; after n ticks
\* of a session it is the last min(600, n) sampled frames, in order.
HistoryIsLastSixHundred ==
    /\ Len(history) <= 600
    /\ history = ClaimLast(sampled, IF Len(sampled) < 600 THEN Len(sampled) ELSE 600)

\* 603 frames were sampled and the first three have left the history
OldestFramesShifted ==
    /\ Len(sampled) = 603
    /\ Len(history) = 600
    /\ history[1] = sampled[4]
    /\ history[1] # sampled[1]
    /\ history[600] = sampled[603]

\* a learning session that sampled at least one frame has been stopped
LearnedCall == call.op = "stopLearning" /\ call.wasLearning /\ history # <<>>

\* the values of bin i over the frames of h
ClaimBin(h, i) == [f \in 1..Len(h) |-> h[f][i]]
\* the largest of the values
ClaimMax(values) ==
    CHOOSE v \in {values[f] : f \in DOMAIN values} : \A f \in DOMAIN values : values[f] <= v
\* element floor(n / 2), counted from 0, of the values in ascending order: the
\* value with at most floor(n / 2) values below it and more than that many not above it
ClaimMedian(values) ==
    CHOOSE v \in {values[f] : f \in DOMAIN values} :
        /\ Cardinality({f \in DOMAIN values : values[f] < v}) <= Len(values) \div 2
        /\ Cardinality({f \in DOMAIN values : values[f] <= v}) > Len(values) \div 2
\* min(255, 0.7 * max + 0.3 * median) as an unsigned byte: the integer part
ClaimBlend(maxVal, median) ==
    IF (7 * maxVal + 3 * median) \div 10 > 255 THEN 255 ELSE (7 * maxVal + 3 * median) \div 10
\* the aggregated frame A
ClaimAggregate(h) ==
    [i \in 1..Len(h[1]) |-> ClaimBlend(ClaimMax(ClaimBin(h, i)), ClaimMedian(ClaimBin(h, i)))]

\* C24: stopLearning returns exactly calculateFromData(A, currentConfig) for
\* A[i] = min(255, 0.7 * max_i + 0.3 * median_i) stored as an unsigned byte,
\* median_i being element floor(n / 2) of the sorted values of bin i, so that
\* median_i <= A[i] <= max_i; a history of n copies of one frame F yields the
\* delta of instantaneous mode on F.
LearnedIsInstantaneousOfBlend ==
    LearnedCall =>
        /\ call.delta = calculateFromData(ClaimAggregate(history), call.currentConfig,
                                          call.sampleRate)
        /\ \A i \in 1..Len(history[1]) :
                /\ ClaimMedian(ClaimBin(history, i)) <= Aggregate(history)[i]
                /\ Aggregate(history)[i] <= ClaimMax(ClaimBin(history, i))
        /\ (\A f \in 1..Len(history) : history[f] = history[1]) =>
                call.delta = calculateFromData(history[1], call.currentConfig,
                                               call.sampleRate)

EventLogCall == call.op = "calculateOptimalSettingsFromEvents" /\ call.eventLog # <<>>

\* the number of events of the log whose range has its midpoint below 300 Hz
ClaimLowEvents(eventLog) ==
    Cardinality({n \in DOMAIN eventLog : ClaimLowCenter(eventLog[n])})

\* C25: for every non-empty event log and every current configuration the
\* rumbleIntensity returned by event-log mode is never lower than the current
\* one, and differs from it only when more than 30% of the events have the
\* midpoint of their range below 300 Hz.
EventLogOnlyBoostsRumble ==
    EventLogCall =>
        /\ RGe(call.delta.rumbleIntensity, call.currentConfig.rumbleIntensity)
        /\ call.delta.rumbleIntensity # call.currentConfig.rumbleIntensity =>
                10 * ClaimLowEvents(call.eventLog) > 3 * Len(call.eventLog)

----------------------------------------------------------------------------
(* Properties of the NoiseGenerator *)

NoiseCall == call.op = "createNoiseBuffer"

\* -1 <= x <= 1
ClaimInUnitRange(x) == QLe(QNum(-1, 0), x) /\ QLe(x, QNum(1, 0))

\* C26: for each of the five colours and every white source with samples in
\* [-1, 1), every sample of the buffer of createNoiseBuffer lies in [-1, 1],
\* and the buffer has exactly duration * sampleRate samples.
NoiseSamplesInUnitRange ==
    NoiseCall =>
        /\ \A i \in 1..Len(call.buffer) : ClaimInUnitRange(call.buffer[i])
        /\ Num(Len(call.buffer)) = Norm(RMul(call.duration, Num(call.sampleRate)))

\* the filter state of a colour as the sequence of its registers
ClaimRegisters(type, state) == IF type = "brown" THEN <<state>> ELSE state

----------------------------------------------------------------------------
(* Properties the detector tests assert *)

\* FrictionDetector.test.ts: createFeatures(100) with no config, createFeatures(30)
\* with frictionSensitivity 2.0
ClaimFrictionTestCall ==
    \/ call.features.midBandEnergy = 100 /\ call.config = Undefined
    \/ /\ call.features.midBandEnergy = 30
       /\ call.config = Some(DetectionConfig(Two, Undefined, One, Undefined, One, Undefined))

\* C28: as the FrictionDetector test asserts, after four consecutive
\* above-threshold detect calls that each return null, the fifth consecutive
\* above-threshold call returns a friction event, with the default config and
\* with frictionSensitivity 2.0 on a metric of 30.
FifthFrictionFrameTriggers ==
    (/\ unit = "friction"
     /\ call.op = "detect"
     /\ aboveRun = 5
     /\ call.pre.sinceEvent # "clean"
     /\ ClaimFrictionTestCall) =>
        /\ call.event # Undefined
        /\ call.event[1].type = "friction"

\* C29: as the GeneralDetector test asserts, the generic event emitted for the
\* frame with energy 6000, all of it mid-band, flux 600 and no peak frequency
\* has frequencyRange.min = 300 and frequencyRange.max = 2000.
MidBandGenericEventRange ==
    (/\ unit = "general"
     /\ call.op = "detect"
     /\ call.features.energy = 6000
     /\ call.features.midBandEnergy = 6000
     /\ call.features.spectralFlux = 600
     /\ call.features.peakFrequency = Undefined
     /\ call.event # Undefined) =>
        /\ call.event[1].type = "generic"
        /\ call.event[1].frequencyRange.min = Num(300)
        /\ call.event[1].frequencyRange.max = Num(2000)

----------------------------------------------------------------------------
(* Properties of the analysis loop's event log *)

\* the events one step appends to the log
ClaimNewEvents == SubSeq(appended', Len(appended) + 1, Len(appended'))

\* C30: each analysis frame appends at most one event to the event log; a
\* footstep event, a friction event and a generic event are pairwise
\* mutually exclusive within one frame.
AtMostOneEventPerFrame ==
    [][/\ Len(appended') <= Len(appended) + 1
       /\ Len(events') <= Len(events) + 1
       /\ \A i, j \in DOMAIN ClaimNewEvents :
              ClaimNewEvents[i].type # ClaimNewEvents[j].type => i = j]_vars

\* C30 witness: a frame in which the footstep and the friction detector both
\* fired has put the first and only event into the log
SingleEventOfTwoDetections ==
    /\ BothFired
    /\ Len(appended) = 1
    /\ events = appended

----------------------------------------------------------------------------
(* Properties of the analysis loop's detector state *)

\* the step is an analysis frame outside calibration
ClaimDetectionFrame == frame'.n = frame.n + 1 /\ ~frame'.calibrating

\* the friction events one step appends to the log
ClaimNewFriction == {e \in Range(ClaimNewEvents) : e.type = "friction"}

\* C31: arbitration never rolls back detector state.  Both the footstep and
\* the friction detector run on every frame outside calibration; a footstep
\* event, discarded or not, starts the footstep cooldown at the frame's
\* timestamp; a friction event, discarded or not, leaves the friction
\* detector sustaining, and while it is sustaining and the frames stay above
\* the threshold it stays so and no friction event is logged.
ArbitrationKeepsDetectorState ==
    [][ClaimDetectionFrame =>
          LET above == ClaimFrictionAbove(frame'.features, Some(frame'.config)) IN
          /\ above => continuousFrames' = continuousFrames + 1
          /\ ~above => continuousFrames' = 0 /\ ~isDetecting'
          /\ frame'.footstepRaw # Undefined =>
                footstepLastDetectionTime' = frame'.timestamp
          /\ frame'.footstepRaw = Undefined =>
                footstepLastDetectionTime' = footstepLastDetectionTime
          /\ frame'.frictionRaw # Undefined => isDetecting'
          /\ (isDetecting /\ above) =>
                /\ isDetecting'
                /\ frame'.frictionRaw = Undefined
                /\ ClaimNewFriction = {}]_vars

\* C31 witness: the friction event of the twelfth frame was discarded, the
\* next frame is still above the threshold, the detector is sustaining and
\* no friction event has been logged
DiscardedFrictionStaysSilent ==
    /\ Detected
    /\ frame.n = FRAMES_THRESHOLD + 1
    /\ continuousFrames = FRAMES_THRESHOLD + 1
    /\ isDetecting
    /\ \E e \in discarded : e.type = "friction"
    /\ \A e \in Range(appended) : e.type # "friction"

\* the generic events one step appends to the log
ClaimNewGeneric == {e \in Range(ClaimNewEvents) : e.type = "generic"}

\* a generic event was logged less than 500 ms before the frame of this step
ClaimGenericRecently ==
    \E e \in Range(appended) : e.type = "generic" /\ frame'.timestamp - e.timestamp < 500

\* C32: a frame in which the generic detector is suppressed leaves its state
\* as it was; while the friction detector is sustaining no generic event is
\* logged; and the first frame after a sustained run, if it logs no footstep
\* event, is above the generic thresholds and follows no generic event of the
\* last 500 ms, logs a generic event.
SuppressedGenericKeepsState ==
    [][ClaimDetectionFrame =>
          /\ ~frame'.generalCalled =>
                /\ generalLastDetectionTime' = generalLastDetectionTime
                /\ ClaimNewGeneric = {}
          /\ isDetecting' => ~frame'.generalCalled
          /\ (/\ isDetecting
              /\ ~isDetecting'
              /\ \A e \in Range(ClaimNewEvents) : e.type # "footstep"
              /\ ClaimGeneralTrigger(frame'.features, Some(frame'.config))
              /\ ~ClaimGenericRecently) =>
                /\ ClaimNewGeneric # {}
                /\ generalLastDetectionTime' = frame'.timestamp]_vars

\* C32 witness: the frame after the one that logged the friction event of a
\* sustained run is below the friction threshold and logs a generic event
GenericAfterSustainedRun ==
    /\ Detected
    /\ ~isDetecting
    /\ frame.generalRaw # Undefined
    /\ generalLastDetectionTime = frame.timestamp
    /\ Len(appended) >= 2
    /\ appended[Len(appended)] = frame.generalRaw[1]
    /\ appended[Len(appended) - 1].type = "friction"
    /\ appended[Len(appended) - 1].timestamp = frame.timestamp - FramePeriod(unit)

----------------------------------------------------------------------------
(* Properties of the calibration *)

\* C33: while calibration is active an analysis frame still updates the
\* SpectralAnalyzer history, but the event log and the state of the three
\* detectors (footstep and generic last-trigger time, friction counter and
\* sustaining flag) are the same after the frame as before it.
CalibrationFrameLeavesDetectorsAlone ==
    [][(isCalibrating /\ frame'.n = frame.n + 1) =>
          /\ previousSpectrum' = frame'.given
          /\ events' = events
          /\ appended' = appended
          /\ footstepLastDetectionTime' = footstepLastDetectionTime
          /\ generalLastDetectionTime' = generalLastDetectionTime
          /\ continuousFrames' = continuousFrames
          /\ isDetecting' = isDetecting]_vars

\* C33 witness: a frame taken during calibration that is above the generic
\* thresholds, with the generic detector out of its cooldown, and above the
\* friction threshold or not, has logged nothing
LoudFrameDuringCalibration ==
    /\ unit = "calibration"
    /\ frame.n > 1
    /\ frame.calibrating
    /\ isCalibrating
    /\ previousSpectrum = frame.given
    /\ ClaimGeneralTrigger(frame.features, Some(hookConfig))
    /\ generalLastDetectionTime = 0
    /\ appended = <<>>

\* the largest of a non-empty sequence of integers
ClaimLargest(q) == CHOOSE x \in Range(q) : \A y \in Range(q) : y <= x

\* the generic threshold a calibration over the energies q ends with
ClaimGenericThreshold(q) ==
    IF ClaimLargest(q) + 4000 > 5000 THEN ClaimLargest(q) + 4000 ELSE 5000

\* C34: every call of startCalibration yields a full calibration window:
\* isCalibrating stays true until 3000 ms after the most recent call, also
\* when startCalibration is called again while a calibration is in progress,
\* and the callback that ends the window computes the thresholds from the
\* samples of every frame of the window.
EveryStartYieldsFullWindow ==
    (unit = "calibration" /\ call.op \in {"startCalibration", "calibrationTimeout"}) =>
        /\ now < call.timestamp + 3000 => isCalibrating
        /\ (call.op = "calibrationTimeout" /\ call.due = call.timestamp + 3000) =>
              /\ ~isCalibrating
              /\ Len(calibrationBuffer.totalEnergy) = call.n - call.frames
              /\ call.n > call.frames =>
                    hookConfig.genericThreshold =
                        Some(Num(ClaimGenericThreshold(calibrationBuffer.totalEnergy)))

----------------------------------------------------------------------------
(* Properties of the learning timer *)

\* C35: when the microphone is switched off while a learning session is in
\* progress the 100 ms sampling timer is cancelled: whenever the app's
\* isLearning flag is false, no sampling timer is running.
NoTimerUnlessAppIsLearning ==
    /\ (unit = "app" /\ ~appIsLearning) => intervals = {}
    /\ (/\ unit = "app"
        /\ call.op = "handleMicToggle"
        /\ call.wasActive) => intervals = {}

\* C36: for one AutoMaskingService, after any sequence of startLearning and
\* stopLearning calls a sampling timer is running exactly when isLearning is
\* true, and never more than one; startLearning while learning changes
\* neither the history nor the timer, startLearning when not learning empties
\* the history, so the history stopLearning reads holds only frames sampled
\* since the matching startLearning.
OneTimerExactlyWhileLearning ==
    /\ [](unit = "learning" =>
            /\ isLearning <=> historyInterval # Undefined
            /\ intervals = IF isLearning THEN {historyInterval[1]} ELSE {}
            /\ history = sampled)
    /\ [][(unit = "learning" /\ call'.op = "startLearning") =>
            IF isLearning
            THEN /\ history' = history
                 /\ intervals' = intervals
                 /\ historyInterval' = historyInterval
            ELSE /\ history' = <<>>
                 /\ Cardinality(intervals') = 1]_vars

\* C36 witness: startLearning was called during a session that had sampled
\* two frames, and they are still in the history
StartedAgainWhileLearning ==
    /\ unit = "learning"
    /\ call.op = "startLearning"
    /\ isLearning
    /\ Len(history) = 2
    /\ intervals = {historyInterval[1]}

----------------------------------------------------------------------------
(* Properties of the differentiating noise colours *)

\* w[(i - k) mod L], for the 0-based index i into the white source w
ClaimAround(w, i, k) == w[((i - k) % Len(w)) + 1]

\* the sum of the samples q[1] .. q[n]
RECURSIVE ClaimSum(_, _)
ClaimSum(q, n) == IF n = 0 THEN QNum(0, 0) ELSE QAdd(ClaimSum(q, n - 1), q[n])

----------------------------------------------------------------------------
(* Properties of the instantaneous mode *)

InstantCall == call.op = "calculateOptimalSettings"

\* lo <= x <= hi for the number x = <<numerator, denominator>> and the
\* fractions lo = loN / loD, hi = hiN / hiD
ClaimBetween(x, loN, loD, hiN, hiD) ==
    /\ x[2] > 0
    /\ loN * x[2] <= x[1] * loD
    /\ x[1] * hiD <= hiN * x[2]

\* the bins of a frame in the lowest band (below 150 Hz) and in the highest
\* (4000 Hz and above)
ClaimLowBand(data, sampleRate) ==
    {i \in 1..Len(data) : ClaimBinBelow(i - 1, Len(data), sampleRate, 150)}
ClaimHighBand(data, sampleRate) ==
    {i \in 1..Len(data) : ~ClaimBinBelow(i - 1, Len(data), sampleRate, 4000)}

\* the sum of the magnitudes of the bins in S
RECURSIVE ClaimTotal(_, _)
ClaimTotal(data, S) ==
    IF S = {} THEN 0
    ELSE LET i == CHOOSE j \in S : TRUE IN data[i] + ClaimTotal(data, S \ {i})

\* the mean magnitude over S is below v, or above v; the mean of no bins is 0
ClaimMeanBelow(data, S, v) ==
    IF S = {} THEN 0 < v ELSE ClaimTotal(data, S) < v * Cardinality(S)
ClaimMeanAbove(data, S, v) ==
    IF S = {} THEN 0 > v ELSE ClaimTotal(data, S) > v * Cardinality(S)

\* C38: for every frame of byte magnitudes and every current configuration
\* the delta of the instantaneous mode has each of the five noise volumes in
\* [0.1, 1]; every EQ band gain in [-3, 6] with the band's frequency, Q, type
\* and position unchanged; rumbleIntensity in [0, 0.8], and 0 with
\* rumbleCrossover 80 whenever the low-band level is at most 140;
\* rumbleCrossover in [80, 150]; hpf one of 30, 80, 150; and lpf 8000 for a
\* high-band level below 60, 16000 for one above 120, and the current
\* configuration's lpf for one in [60, 120].
InstantaneousDeltaInRange ==
    InstantCall =>
        LET d == call.delta
            c == call.currentConfig
            low == ClaimLowBand(call.dataArray, call.sampleRate)
            high == ClaimHighBand(call.dataArray, call.sampleRate)
        IN /\ DOMAIN d.noiseVolumes = {"white", "pink", "brown", "blue", "violet"}
           /\ \A colour \in DOMAIN d.noiseVolumes :
                ClaimBetween(d.noiseVolumes[colour], 1, 10, 1, 1)
           /\ DOMAIN d.eqBands = DOMAIN c.eqBands
           /\ \A b \in DOMAIN d.eqBands :
                /\ ClaimBetween(d.eqBands[b].gain, -3, 1, 6, 1)
                /\ d.eqBands[b].frequency = c.eqBands[b].frequency
                /\ d.eqBands[b].Q = c.eqBands[b].Q
                /\ d.eqBands[b].type = c.eqBands[b].type
           /\ ClaimBetween(d.rumbleIntensity, 0, 1, 8, 10)
           /\ ~ClaimMeanAbove(call.dataArray, low, 140) =>
                d.rumbleIntensity = Num(0) /\ d.rumbleCrossover = Num(80)
           /\ ClaimBetween(d.rumbleCrossover, 80, 1, 150, 1)
           /\ d.hpf \in {Num(30), Num(80), Num(150)}
           /\ d.lpf = IF ClaimMeanBelow(call.dataArray, high, 60) THEN Num(8000)
                      ELSE IF ClaimMeanAbove(call.dataArray, high, 120) THEN Num(16000)
                      ELSE c.lpf

\* C38 witness: a frame with a low-band level above 140 and a high-band level
\* in [60, 120], with a preset whose filters differ from every tier: some
\* rumble, the low cut at 30 and the high cut left as the preset has it
RumbleWithHighCutKept ==
    /\ InstantCall
    /\ ClaimMeanAbove(call.dataArray, ClaimLowBand(call.dataArray, call.sampleRate), 140)
    /\ ~ClaimMeanBelow(call.dataArray, ClaimHighBand(call.dataArray, call.sampleRate), 60)
    /\ ~ClaimMeanAbove(call.dataArray, ClaimHighBand(call.dataArray, call.sampleRate), 120)
    /\ call.delta.rumbleIntensity # Num(0)
    /\ call.delta.hpf = Num(30)
    /\ call.delta.lpf = call.currentConfig.lpf
    /\ call.delta.lpf \notin {Num(8000), Num(16000)}

\* mixes to put in place of the current configuration's: every colour silent,
\* every colour at full volume, and the mixes of the presets
ClaimOtherMixes ==
    {[colour \in {"white", "pink", "brown", "blue", "violet"} |-> v] : v \in {Num(0), Num(1)}}
        \cup {preset.noiseVolumes : preset \in MaskConfigs}

\* the configurations that differ from c in noiseVolumes only
ClaimSameButMix(c) == {[c EXCEPT !.noiseVolumes = mix] : mix \in ClaimOtherMixes}

\* C39: single-event mode resets the whole mix: for the clicked event, every
\* configuration that differs from the current one only in noiseVolumes yields
\* the same returned noiseVolumes, all five colours being overwritten; and the
\* returned rumbleIntensity is the current configuration's unless the center
\* frequency of the event is below 300 Hz.
SingleEventResetsWholeMix ==
    SingleEvent =>
        /\ DOMAIN call.delta.noiseVolumes = {"white", "pink", "brown", "blue", "violet"}
        /\ \A other \in ClaimSameButMix(call.currentConfig) :
                calculateMaskForSingleEvent(call.event, other).noiseVolumes
                    = call.delta.noiseVolumes
        /\ ~ClaimLowCenter(call.event) =>
                call.delta.rumbleIntensity = call.currentConfig.rumbleIntensity

\* C39 witness: a generic event of center 2000 Hz clicked under the Footstep
\* Shield preset, whose brown is 1 and whose rumble is 0.8: brown comes back at
\* the baseline 0.1, the rumble as the preset has it
FullBrownResetRumbleKept ==
    /\ SingleEvent
    /\ call.event.type = "generic"
    /\ ClaimTwiceCenter(call.event) = Num(4000)
    /\ call.currentConfig.noiseVolumes.brown = Num(1)
    /\ call.delta.noiseVolumes.brown = Rat(1, 10)
    /\ call.currentConfig.rumbleIntensity = Rat(4, 5)
    /\ call.delta.rumbleIntensity = Rat(4, 5)

====
